---- MODULE Spec2Model ----
(***************************************************************************)
(* The vCon enrichment pipeline of Feel Good Spas: vcon_parser.VConParser  *)
(* and data_processor.SpaDataProcessor.                                    *)
(*                                                                         *)
(* Python values are tagged records: Str(s), Num(n), Flt(m) (a float, in   *)
(* thousandths), Bool(b), Null, List(seq), Obj(record).  Text is kept as   *)
(* real strings; `kw in text` is a substring test on the characters.       *)
(***************************************************************************)
EXTENDS Integers, Sequences, FiniteSets, TLC

(***************************************************************************)
(* Python values                                                           *)
(***************************************************************************)
Null == [t |-> "null"]
Str(s) == [t |-> "str", v |-> s]
Num(n) == [t |-> "num", v |-> n]
Flt(m) == [t |-> "float", v |-> m]
Bool(b) == [t |-> "bool", v |-> b]
List(s) == [t |-> "list", v |-> s]
Obj(r) == [t |-> "obj", v |-> r]
EmptyRec == [k \in {} |-> Null]

IsStr(x) == x.t = "str"
IsObj(x) == x.t = "obj"

\* dict.get(key, default) on the payload of an object
Get(o, k, d) == IF k \in DOMAIN o THEN o[k] ELSE d

\* Python truthiness
Truthy(x) ==
    CASE x.t = "null" -> FALSE
      [] x.t = "str" -> x.v # ""
      [] x.t = "num" -> x.v # 0
      [] x.t = "float" -> x.v # 0
      [] x.t = "bool" -> x.v
      [] x.t = "list" -> Len(x.v) > 0
      [] x.t = "obj" -> DOMAIN x.v # {}

\* x == 0 in Python: 0, 0.0 and False are equal to 0
EqZero(x) ==
    CASE x.t = "num" -> x.v = 0
      [] x.t = "float" -> x.v = 0
      [] x.t = "bool" -> x.v = FALSE
      [] OTHER -> FALSE

\* x == 'literal' in Python
EqStr(x, s) == IsStr(x) /\ x.v = s

(***************************************************************************)
(* Strings                                                                 *)
(***************************************************************************)
\* kw in text
Contains(text, kw) ==
    \E i \in 1..(Len(text) - Len(kw) + 1) : SubSeq(text, i, i + Len(kw) - 1) = kw

LowerMap ==
    "A" :> "a" @@ "B" :> "b" @@ "C" :> "c" @@ "D" :> "d" @@ "E" :> "e" @@
    "F" :> "f" @@ "G" :> "g" @@ "H" :> "h" @@ "I" :> "i" @@ "J" :> "j" @@
    "K" :> "k" @@ "L" :> "l" @@ "M" :> "m" @@ "N" :> "n" @@ "O" :> "o" @@
    "P" :> "p" @@ "Q" :> "q" @@ "R" :> "r" @@ "S" :> "s" @@ "T" :> "t" @@
    "U" :> "u" @@ "V" :> "v" @@ "W" :> "w" @@ "X" :> "x" @@ "Y" :> "y" @@
    "Z" :> "z"

LowerChar(c) == IF c \in DOMAIN LowerMap THEN LowerMap[c] ELSE c

\* str.lower(), by halves to keep the evaluation shallow
RECURSIVE Lower(_)
Lower(s) ==
    IF Len(s) = 0 THEN ""
    ELSE IF Len(s) = 1 THEN LowerChar(s)
    ELSE LET h == Len(s) \div 2
         IN  Lower(SubSeq(s, 1, h)) \o Lower(SubSeq(s, h + 1, Len(s)))

\* str.replace(old, new) for a one-character old
RECURSIVE Replace(_, _, _)
Replace(s, old, new) ==
    IF Len(s) = 0 THEN ""
    ELSE IF Len(s) = 1 THEN (IF s = old THEN new ELSE s)
    ELSE LET h == Len(s) \div 2
         IN  Replace(SubSeq(s, 1, h), old, new) \o Replace(SubSeq(s, h + 1, Len(s)), old, new)

RECURSIVE JoinFrom(_, _, _)
JoinFrom(parts, sep, i) ==
    IF i > Len(parts) THEN ""
    ELSE IF i = Len(parts) THEN parts[i]
    ELSE parts[i] \o sep \o JoinFrom(parts, sep, i + 1)

\* sep.join(parts)
Join(parts, sep) == JoinFrom(parts, sep, 1)

\* sum(1 for kw in keywords if kw in text)
CountIn(keywords, text) ==
    Cardinality({i \in 1..Len(keywords) : Contains(text, keywords[i])})

\* any(kw in text for kw in keywords)
AnyIn(keywords, text) == \E i \in 1..Len(keywords) : Contains(text, keywords[i])

(***************************************************************************)
(* Ordered dicts (Python dicts whose key order reaches the output columns) *)
(***************************************************************************)
Range(s) == {s[i] : i \in 1..Len(s)}

\* a dict literal: pairs is a sequence of <<key, value>>
Dict(pairs) ==
    [keys |-> [i \in 1..Len(pairs) |-> pairs[i][1]],
     val |-> [k \in {pairs[i][1] : i \in 1..Len(pairs)} |->
                pairs[CHOOSE i \in 1..Len(pairs) : pairs[i][1] = k][2]]]

\* d.update(e): existing keys keep their place, new keys are appended
DictUpdate(d, e) ==
    [keys |-> d.keys \o SelectSeq(e.keys, LAMBDA k : k \notin Range(d.keys)),
     val |-> [k \in Range(d.keys) \cup Range(e.keys) |->
                IF k \in Range(e.keys) THEN e.val[k] ELSE d.val[k]]]

\* d[key] = value
DictSet(d, k, x) == DictUpdate(d, Dict(<< <<k, x>> >>))

(***************************************************************************)
(* vcon_parser.VConParser                                                  *)
(***************************************************************************)
\* The items a Python for-loop draws from a value; ok is FALSE when the
\* value is not iterable (TypeError).
RECURSIVE KeySeq(_)
KeySeq(S) ==
    IF S = {} THEN << >>
    ELSE LET k == CHOOSE k \in S : TRUE IN <<Str(k)>> \o KeySeq(S \ {k})

Iterate(x) ==
    CASE x.t = "list" -> [ok |-> TRUE, items |-> x.v]
      [] x.t = "str" ->
           [ok |-> TRUE, items |-> [i \in 1..Len(x.v) |-> Str(SubSeq(x.v, i, i))]]
      [] x.t = "obj" -> [ok |-> TRUE, items |-> KeySeq(DOMAIN x.v)]
      [] OTHER -> [ok |-> FALSE, items |-> << >>]

agent_indicators == <<"support", "agent", "rep", "service">>

\* _determine_party_role raises when name or email is not a string
determine_party_role_raises(party) ==
    \/ ~IsStr(Get(party, "name", Str("")))
    \/ ~IsStr(Get(party, "email", Str("")))

\* _determine_party_role
determine_party_role(party) ==
    LET name == Lower(Get(party, "name", Str("")).v)
        email == Lower(Get(party, "email", Str("")).v)
    IN  IF AnyIn(agent_indicators, name) THEN "agent"
        ELSE IF Contains(email, "feelgoodspas") \/ Contains(email, "spa") THEN "agent"
        ELSE "customer"

party_info(party) ==
    [name |-> Get(party, "name", Str("Unknown")),
     tel |-> Get(party, "tel", Str("")),
     email |-> Get(party, "email", Str("")),
     role |-> Str(determine_party_role(party)),
     location |-> Get(party, "location", Str("")),
     organization |-> Get(party, "organization", Str(""))]

\* _extract_parties: [ok, val]; ok is FALSE when the loop raises
extract_parties(parties_data) ==
    LET it == Iterate(parties_data) IN
    IF ~it.ok
       \/ \E i \in 1..Len(it.items) :
             ~IsObj(it.items[i]) \/ determine_party_role_raises(it.items[i].v)
    THEN [ok |-> FALSE, val |-> << >>]
    ELSE [ok |-> TRUE, val |-> [i \in 1..Len(it.items) |-> party_info(it.items[i].v)]]

dialog_entry(entry) ==
    [type |-> Get(entry, "type", Str("text")),
     party |-> Get(entry, "party", Num(0)),
     start |-> Get(entry, "start", Num(0)),
     duration |-> Get(entry, "duration", Num(0)),
     body |-> Get(entry, "body", Str("")),
     mimetype |-> Get(entry, "mimetype", Str("")),
     url |-> Get(entry, "url", Str("")),
     encoding |-> Get(entry, "encoding", Str("none"))]

\* _extract_dialog
extract_dialog(dialog_data) ==
    LET it == Iterate(dialog_data) IN
    IF ~it.ok \/ \E i \in 1..Len(it.items) : ~IsObj(it.items[i])
    THEN [ok |-> FALSE, val |-> << >>]
    ELSE [ok |-> TRUE, val |-> [i \in 1..Len(it.items) |-> dialog_entry(it.items[i].v)]]

analysis_entry(entry) ==
    [type |-> Get(entry, "type", Str("")),
     dialog |-> Get(entry, "dialog", Num(0)),
     vendor |-> Get(entry, "vendor", Str("")),
     schema |-> Get(entry, "schema", Str("")),
     body |-> Get(entry, "body", Obj(EmptyRec)),
     encoding |-> Get(entry, "encoding", Str("json"))]

\* _extract_analysis
extract_analysis(analysis_data) ==
    LET it == Iterate(analysis_data) IN
    IF ~it.ok \/ \E i \in 1..Len(it.items) : ~IsObj(it.items[i])
    THEN [ok |-> FALSE, val |-> << >>]
    ELSE [ok |-> TRUE, val |-> [i \in 1..Len(it.items) |-> analysis_entry(it.items[i].v)]]

booking_keywords == <<"appointment", "booking", "schedule", "reserve", "book">>
complaint_keywords == <<"complaint", "problem", "issue", "unhappy", "dissatisfied">>
billing_keywords == <<"billing", "payment", "charge", "invoice", "refund">>
service_keywords == <<"service", "treatment", "massage", "facial", "spa">>

Max2(a, b) == IF a >= b THEN a ELSE b
Min2(a, b) == IF a <= b THEN a ELSE b

classify_conversation_type_last_wins(text) ==
    LET text_lower == Lower(text)
        booking_count == CountIn(booking_keywords, text_lower)
        complaint_count == CountIn(complaint_keywords, text_lower)
        billing_count == CountIn(billing_keywords, text_lower)
        service_count == CountIn(service_keywords, text_lower)
        max_count == Max2(Max2(booking_count, complaint_count),
                          Max2(billing_count, service_count))
    IN  IF max_count = 0 THEN "general"
        ELSE IF max_count = service_count THEN "service_inquiry"
        ELSE IF max_count = billing_count THEN "billing"
        ELSE IF max_count = complaint_count THEN "complaint"
        ELSE "booking"

\* _classify_conversation_type
classify_conversation_type(text) ==
    LET text_lower == Lower(text)
        booking_count == CountIn(booking_keywords, text_lower)
        complaint_count == CountIn(complaint_keywords, text_lower)
        billing_count == CountIn(billing_keywords, text_lower)
        service_count == CountIn(service_keywords, text_lower)
        max_count == Max2(Max2(booking_count, complaint_count),
                          Max2(billing_count, service_count))
    IN  IF max_count = 0 THEN "general"
        ELSE IF max_count = booking_count THEN "booking"
        ELSE IF max_count = complaint_count THEN "complaint"
        ELSE IF max_count = billing_count THEN "billing"
        ELSE "service_inquiry"

\* isinstance(duration, (int, float)): bool is an int in Python
NumericValue(x) ==
    CASE x.t = "num" -> x.v
      [] x.t = "bool" -> IF x.v THEN 1 ELSE 0
      [] OTHER -> 0

RECURSIVE SumDurations(_, _)
SumDurations(dialog, i) ==
    IF i > Len(dialog) THEN 0
    ELSE NumericValue(dialog[i].duration) + SumDurations(dialog, i + 1)

\* ' '.join(bodies) raises TypeError when a body is not a string
metrics_raises(dialog) == \E i \in 1..Len(dialog) : ~IsStr(dialog[i].body)

\* a variant that takes party index 1 alone for the customer
calculate_conversation_metrics_party_one(dialog, analysis) ==
    [total_duration |-> SumDurations(dialog, 1),
     message_count |-> Len(dialog),
     agent_messages |-> Cardinality({i \in 1..Len(dialog) : EqZero(dialog[i].party)}),
     customer_messages |->
        Cardinality({i \in 1..Len(dialog) : dialog[i].party = Num(1)}),
     avg_response_time |-> 0,
     conversation_type |->
        classify_conversation_type(
            Join([i \in 1..Len(dialog) |-> dialog[i].body.v], " ")),
     has_recording |-> \E i \in 1..Len(dialog) : EqStr(dialog[i].type, "recording"),
     has_analysis |-> Len(analysis) > 0]

\* _calculate_conversation_metrics
calculate_conversation_metrics(dialog, analysis) ==
    [total_duration |-> SumDurations(dialog, 1),
     message_count |-> Len(dialog),
     agent_messages |-> Cardinality({i \in 1..Len(dialog) : EqZero(dialog[i].party)}),
     customer_messages |-> Cardinality({i \in 1..Len(dialog) : ~EqZero(dialog[i].party)}),
     avg_response_time |-> 0,
     conversation_type |->
        classify_conversation_type(
            Join([i \in 1..Len(dialog) |-> dialog[i].body.v], " ")),
     has_recording |-> \E i \in 1..Len(dialog) : EqStr(dialog[i].type, "recording"),
     has_analysis |-> Len(analysis) > 0]

\* _parse_single_conversation: [ok, val]; ok is FALSE for the None returned
\* from its except branch
parse_single_conversation(vcon_data) ==
    IF ~IsObj(vcon_data) THEN [ok |-> FALSE]
    ELSE
    LET d == vcon_data.v
        vcon_json == Get(d, "vcon_json", Obj(EmptyRec))
    IN  IF ~IsObj(vcon_json) THEN [ok |-> FALSE]
        ELSE
        LET parties == extract_parties(Get(vcon_json.v, "parties", List(<< >>)))
            dialog_data == extract_dialog(Get(vcon_json.v, "dialog", List(<< >>)))
            analysis_data == extract_analysis(Get(vcon_json.v, "analysis", List(<< >>)))
        IN  IF ~parties.ok \/ ~dialog_data.ok \/ ~analysis_data.ok
               \/ metrics_raises(dialog_data.val)
            THEN [ok |-> FALSE]
            ELSE [ok |-> TRUE,
                  val |-> [conversation_id |-> Get(d, "id", Get(d, "uuid", Str(""))),
                           subject |-> Get(d, "subject", Str("Unknown")),
                           created_at |-> Get(d, "created_at", Str("")),
                           updated_at |-> Get(d, "updated_at", Str("")),
                           parties |-> parties.val,
                           dialog |-> dialog_data.val,
                           analysis |-> analysis_data.val,
                           metrics |-> calculate_conversation_metrics(
                                           dialog_data.val, analysis_data.val),
                           raw_vcon |-> vcon_data]]

RECURSIVE parse_from_abort_on_failure(_, _)
parse_from_abort_on_failure(conversations, i) ==
    IF i > Len(conversations) THEN << >>
    ELSE LET parsed_conv == parse_single_conversation(conversations[i]) IN
         IF parsed_conv.ok
         THEN <<parsed_conv.val>> \o parse_from_abort_on_failure(conversations, i + 1)
         ELSE << >>

RECURSIVE parse_from(_, _)
parse_from(conversations, i) ==
    IF i > Len(conversations) THEN << >>
    ELSE LET parsed_conv == parse_single_conversation(conversations[i]) IN
         IF parsed_conv.ok
         THEN <<parsed_conv.val>> \o parse_from(conversations, i + 1)
         ELSE parse_from(conversations, i + 1)

get_agent_info_always_first(conversation) ==
    IF Len(conversation.parties) > 0 THEN conversation.parties[1] ELSE EmptyRec

get_customer_info_by_index(conversation) ==
    IF Len(conversation.parties) > 1 THEN conversation.parties[2] ELSE EmptyRec

\* _get_agent_info
get_agent_info(conversation) ==
    LET parties == conversation.parties IN
    IF \E i \in 1..Len(parties) : EqStr(parties[i].role, "agent")
    THEN parties[CHOOSE i \in 1..Len(parties) :
                    /\ EqStr(parties[i].role, "agent")
                    /\ \A j \in 1..(i - 1) : ~EqStr(parties[j].role, "agent")]
    ELSE IF Len(parties) > 0 THEN parties[1]
    ELSE EmptyRec

\* _get_customer_info
get_customer_info(conversation) ==
    LET parties == conversation.parties IN
    IF \E i \in 1..Len(parties) : EqStr(parties[i].role, "customer")
    THEN parties[CHOOSE i \in 1..Len(parties) :
                    /\ EqStr(parties[i].role, "customer")
                    /\ \A j \in 1..(i - 1) : ~EqStr(parties[j].role, "customer")]
    ELSE IF Len(parties) > 1 THEN parties[2]
    ELSE EmptyRec

extract_full_conversation_text_all_types(conversation) ==
    LET dialog == conversation.dialog
        line(entry) == (IF EqZero(entry.party) THEN "Agent" ELSE "Customer")
                         \o ": " \o entry.body.v
        kept == SelectSeq(dialog, LAMBDA e : Truthy(e.body))
    IN  Join([i \in 1..Len(kept) |-> line(kept[i])], "\n")

\* _extract_full_conversation_text
extract_full_conversation_text(conversation) ==
    LET dialog == conversation.dialog
        line(entry) == (IF EqZero(entry.party) THEN "Agent" ELSE "Customer")
                         \o ": " \o entry.body.v
        kept == SelectSeq(dialog, LAMBDA e : EqStr(e.type, "text") /\ Truthy(e.body))
    IN  Join([i \in 1..Len(kept) |-> line(kept[i])], "\n")

\* the call_details dict built by extract_business_data for one conversation
call_details(conversation) ==
    LET agent_info == get_agent_info(conversation)
        customer_info == get_customer_info(conversation)
    IN  Dict(<<
          <<"conversation_id", conversation.conversation_id>>,
          <<"subject", conversation.subject>>,
          <<"created_at", conversation.created_at>>,
          <<"duration_seconds", Num(conversation.metrics.total_duration)>>,
          <<"message_count", Num(conversation.metrics.message_count)>>,
          <<"conversation_type", Str(conversation.metrics.conversation_type)>>,
          <<"has_recording", Bool(conversation.metrics.has_recording)>>,
          <<"agent_name", Get(agent_info, "name", Str("Unknown"))>>,
          <<"agent_email", Get(agent_info, "email", Str(""))>>,
          <<"customer_name", Get(customer_info, "name", Str("Unknown"))>>,
          <<"customer_phone", Get(customer_info, "tel", Str(""))>>,
          <<"location", Get(agent_info, "location", Str("Unknown"))>>,
          <<"conversation_text", Str(extract_full_conversation_text(conversation))>>
        >>)

\* a variant that emits the call_details last conversation first
extract_business_data_reversed(parsed_data) ==
    [i \in 1..Len(parsed_data) |->
        call_details(parsed_data[Len(parsed_data) + 1 - i])]

\* extract_business_data: no step of its loop body raises on a parsed
\* conversation, so every parsed conversation yields its call_details
extract_business_data(parsed_data) ==
    [i \in 1..Len(parsed_data) |-> call_details(parsed_data[i])]

(***************************************************************************)
(* Numbers: a float is kept in thousandths                                 *)
(***************************************************************************)
\* the integer nearest to num / den (den > 0), ties to the even one, as
\* Python's round
RoundHalfEven(num, den) ==
    LET q == num \div den
        r == num % den
    IN  IF 2 * r < den THEN q
        ELSE IF 2 * r > den THEN q + 1
        ELSE IF q % 2 = 0 THEN q ELSE q + 1

\* round(x, 1) of a float in thousandths
Round1(m) == 100 * RoundHalfEven(m, 100)

\* max(lo, min(hi, x))
Clamp(lo, hi, x) == Max2(lo, Min2(hi, x))

Digits == <<"0", "1", "2", "3", "4", "5", "6", "7", "8", "9">>

IsDigit(c) == \E i \in 1..10 : Digits[i] = c
DigitVal(c) == (CHOOSE i \in 1..10 : Digits[i] = c) - 1

RECURSIVE NatToStr(_)
NatToStr(n) == IF n < 10 THEN Digits[n + 1] ELSE NatToStr(n \div 10) \o Digits[(n % 10) + 1]

\* str(n)
IntToStr(n) == IF n < 0 THEN "-" \o NatToStr(0 - n) ELSE NatToStr(n)

RECURSIVE ZeroPad(_, _)
ZeroPad(s, width) == IF Len(s) >= width THEN s ELSE ZeroPad("0" \o s, width)

AllDigits(s) == Len(s) > 0 /\ \A i \in 1..Len(s) : IsDigit(SubSeq(s, i, i))

RECURSIVE StrToNat(_)
StrToNat(s) ==
    IF Len(s) = 0 THEN 0
    ELSE 10 * StrToNat(SubSeq(s, 1, Len(s) - 1)) + DigitVal(SubSeq(s, Len(s), Len(s)))

\* json.dumps of a dict of counts with the given key order
RECURSIVE JsonItems(_, _, _)
JsonItems(keys, counts, i) ==
    IF i > Len(keys) THEN ""
    ELSE "\"" \o keys[i] \o "\": " \o IntToStr(counts[i])
         \o (IF i < Len(keys) THEN ", " ELSE "") \o JsonItems(keys, counts, i + 1)

JsonDumps(keys, counts) == "{" \o JsonItems(keys, counts, 1) \o "}"

(***************************************************************************)
(* data_processor.SpaDataProcessor: the sub-features                       *)
(***************************************************************************)
\* TextBlob(text).sentiment is an external library.  It is a function of the
\* text alone; the stand-in averages the polarity (in thousandths) of the
\* lexicon entries that occur in the text.
sentiment_lexicon ==
    << <<"happy", 800>>, <<"great", 800>>, <<"wonderful", 1000>>, <<"love", 500>>,
       <<"rude", -300>>, <<"terrible", -1000>>, <<"sorry", -500>>, <<"angry", -500>> >>

TextBlobPolarity(text) ==
    LET t == Lower(text)
        hits == {i \in 1..Len(sentiment_lexicon) : Contains(t, sentiment_lexicon[i][1])}
        Sum[S \in SUBSET (1..Len(sentiment_lexicon))] ==
            IF S = {} THEN 0
            ELSE LET i == CHOOSE i \in S : TRUE
                 IN  sentiment_lexicon[i][2] + Sum[S \ {i}]
    IN  IF hits = {} THEN 0 ELSE RoundHalfEven(Sum[hits], Cardinality(hits))

TextBlobSubjectivity(text) ==
    LET t == Lower(text)
        hits == {i \in 1..Len(sentiment_lexicon) : Contains(t, sentiment_lexicon[i][1])}
    IN  IF hits = {} THEN 0 ELSE 750

\* a variant whose thresholds are inclusive
sentiment_label_of_inclusive(polarity) ==
    IF polarity >= 100 THEN "positive"
    ELSE IF polarity <= -100 THEN "negative"
    ELSE "neutral"

\* the mapping of _analyze_sentiment from a polarity to its label and score
sentiment_label_of(polarity) ==
    IF polarity > 100 THEN "positive"
    ELSE IF polarity < -100 THEN "negative"
    ELSE "neutral"

satisfaction_score_of(polarity) == Round1(Clamp(1000, 10000, 5000 + 5 * polarity))

\* what _analyze_sentiment returns for an empty text and from its except
\* branch
default_sentiment ==
    Dict(<< <<"sentiment_polarity", Flt(0)>>,
            <<"sentiment_subjectivity", Flt(0)>>,
            <<"sentiment_label", Str("neutral")>>,
            <<"customer_satisfaction_score", Flt(5000)>> >>)

\* _analyze_sentiment, given the outcome blob of TextBlob(text).sentiment:
\* [ok, polarity, subjectivity], ok FALSE when it raises
analyze_sentiment_with(text, blob) ==
    IF text = "" THEN default_sentiment
    ELSE IF ~blob.ok THEN default_sentiment
    ELSE Dict(<< <<"sentiment_polarity", Flt(blob.polarity)>>,
                 <<"sentiment_subjectivity", Flt(blob.subjectivity)>>,
                 <<"sentiment_label", Str(sentiment_label_of(blob.polarity))>>,
                 <<"customer_satisfaction_score",
                   Flt(satisfaction_score_of(blob.polarity))>> >>)

\* _analyze_sentiment
analyze_sentiment(text) ==
    analyze_sentiment_with(
        text,
        [ok |-> TRUE, polarity |-> TextBlobPolarity(text),
         subjectivity |-> TextBlobSubjectivity(text)])

topic_names ==
    <<"appointment_scheduling", "service_inquiry", "billing_payment", "complaint",
      "compliment", "cancellation", "technical_support", "product_inquiry",
      "location_hours">>

topic_keywords ==
    << <<"appointment", "schedule", "booking", "book", "reserve", "availability">>,
       <<"service", "treatment", "massage", "facial", "spa", "therapy", "package">>,
       <<"billing", "payment", "charge", "invoice", "refund", "credit", "cost", "price">>,
       <<"complaint", "problem", "issue", "unhappy", "dissatisfied", "disappointed",
         "terrible">>,
       <<"great", "excellent", "amazing", "wonderful", "fantastic", "love", "satisfied">>,
       <<"cancel", "cancellation", "reschedule", "change", "modify">>,
       <<"website", "app", "technical", "login", "password", "system">>,
       <<"product", "gift card", "membership", "package", "voucher">>,
       <<"hours", "location", "address", "directions", "parking", "open", "closed">> >>

\* topic_scores, in the order of topic_keywords
topic_scores_of(text) ==
    LET text_lower == Lower(text)
    IN  [i \in 1..Len(topic_names) |-> CountIn(topic_keywords[i], text_lower)]

RECURSIVE SeqSum(_, _)
SeqSum(s, i) == IF i > Len(s) THEN 0 ELSE s[i] + SeqSum(s, i + 1)

\* _classify_topics: [ok, val].  With no keyword hit primary_topic is
\* 'general', which is no key of topic_scores: topic_scores[primary_topic]
\* raises KeyError and the function has no handler (ok is FALSE).
classify_topics(text) ==
    LET topic_scores == topic_scores_of(text)
        any_hit == \E i \in 1..Len(topic_scores) : topic_scores[i] # 0
        \* max(topic_scores, key=topic_scores.get): the first maximal key
        best == CHOOSE i \in 1..Len(topic_scores) :
                   /\ \A j \in 1..Len(topic_scores) : topic_scores[j] <= topic_scores[i]
                   /\ \A j \in 1..(i - 1) : topic_scores[j] < topic_scores[i]
        total_matches == SeqSum(topic_scores, 1)
    IN  IF ~any_hit THEN [ok |-> FALSE]
        ELSE [ok |-> TRUE,
              val |-> Dict(<<
                 <<"primary_topic", Str(topic_names[best])>>,
                 <<"topic_confidence",
                   Flt(RoundHalfEven(1000 * topic_scores[best], Max2(total_matches, 1)))>>,
                 <<"topic_scores", Str(JsonDumps(topic_names, topic_scores))>> >>)]

positive_indicators ==
    <<"thank you", "please", "help", "understand", "sorry", "apologize",
      "certainly", "absolutely", "of course", "glad to help">>

negative_indicators ==
    <<"rude", "unprofessional", "hang up", "transfer", "manager",
      "escalate", "frustrated", "angry", "upset">>

IsNumber(x) == x.t \in {"num", "float", "bool"}

\* the value of a number in thousandths, to compare with the float scores
Milli(x) ==
    CASE x.t = "num" -> 1000 * x.v
      [] x.t = "bool" -> IF x.v THEN 1000 ELSE 0
      [] x.t = "float" -> x.v

assess_call_quality_no_duration(text, conversation) ==
    LET text_lower == Lower(text)
        positive_count == CountIn(positive_indicators, text_lower)
        negative_count == CountIn(negative_indicators, text_lower)
        quality_score == Clamp(1000, 10000, 7000 + 300 * positive_count - 500 * negative_count)
    IN  Dict(<< <<"call_quality_score", Flt(Round1(quality_score))>>,
                <<"positive_indicators_count", Num(positive_count)>>,
                <<"negative_indicators_count", Num(negative_count)>> >>)

assess_call_quality_penalty_from_900(text, conversation) ==
    LET text_lower == Lower(text)
        positive_count == CountIn(positive_indicators, text_lower)
        negative_count == CountIn(negative_indicators, text_lower)
        duration == Milli(conversation.val["duration_seconds"])
        base_score == 7000 + 300 * positive_count - 500 * negative_count
                      + (IF 120000 <= duration /\ duration <= 600000 THEN 500
                         ELSE IF duration >= 900000 THEN -300
                         ELSE 0)
    IN  Dict(<< <<"call_quality_score", Flt(Round1(Clamp(1000, 10000, base_score)))>>,
                <<"positive_indicators_count", Num(positive_count)>>,
                <<"negative_indicators_count", Num(negative_count)>> >>)

\* _assess_call_quality; conversation is the call_details dict
assess_call_quality(text, conversation) ==
    LET text_lower == Lower(text)
        positive_count == CountIn(positive_indicators, text_lower)
        negative_count == CountIn(negative_indicators, text_lower)
        duration == IF "duration_seconds" \in DOMAIN conversation.val
                    THEN conversation.val["duration_seconds"] ELSE Num(0)
        base_score == 7000 + 300 * positive_count - 500 * negative_count
                      + (IF 120000 <= Milli(duration) /\ Milli(duration) <= 600000 THEN 500
                         ELSE IF Milli(duration) > 900000 THEN -300
                         ELSE 0)
        quality_score == Clamp(1000, 10000, base_score)
    IN  IF ~IsNumber(duration)
        THEN \* the comparison raises TypeError: the except branch
             Dict(<< <<"call_quality_score", Flt(7000)>>,
                     <<"positive_indicators_count", Num(0)>>,
                     <<"negative_indicators_count", Num(0)>> >>)
        ELSE Dict(<< <<"call_quality_score", Flt(Round1(quality_score))>>,
                     <<"positive_indicators_count", Num(positive_count)>>,
                     <<"negative_indicators_count", Num(negative_count)>> >>)

script_element_names ==
    <<"greeting", "identification", "problem_acknowledgment", "solution_offering",
      "follow_up", "closing">>

script_elements ==
    << <<"thank you for calling", "feel good spas", "how can i help", "this is">>,
       <<"my name is", "this is", "speaking">>,
       <<"understand", "i see", "i hear", "let me help">>,
       <<"i can help", "let me", "what i can do", "here's what">>,
       <<"anything else", "is there anything", "follow up", "contact us">>,
       <<"thank you", "have a great", "wonderful day", "goodbye">> >>

\* adherence_scores, in the order of script_elements
adherence_scores_of(text) ==
    LET text_lower == Lower(text)
    IN  [i \in 1..Len(script_elements) |->
            IF AnyIn(script_elements[i], text_lower) THEN 1 ELSE 0]

\* round(followed_elements / total_elements, 3)
adherence_rate_truncated(followed_elements, total_elements) ==
    (1000 * followed_elements) \div total_elements

adherence_rate(followed_elements, total_elements) ==
    RoundHalfEven(1000 * followed_elements, total_elements)

\* _analyze_script_adherence
analyze_script_adherence(text) ==
    LET adherence_scores == adherence_scores_of(text)
        total_elements == Len(script_elements)
        followed_elements == SeqSum(adherence_scores, 1)
    IN  Dict(<< <<"script_adherence_rate",
                  Flt(adherence_rate(followed_elements, total_elements))>>,
                <<"script_elements_followed", Num(followed_elements)>>,
                <<"script_elements_total", Num(total_elements)>>,
                <<"script_details",
                  Str(JsonDumps(script_element_names, adherence_scores))>> >>)

satisfaction_indicators ==
    <<"satisfied", "happy", "pleased", "great", "excellent",
      "wonderful", "amazing", "love", "perfect", "fantastic">>

dissatisfaction_indicators ==
    <<"dissatisfied", "unhappy", "upset", "angry", "frustrated",
      "terrible", "awful", "horrible", "worst", "hate">>

effort_indicators ==
    <<"easy", "simple", "quick", "fast", "convenient",
      "smooth", "efficient", "straightforward">>

difficulty_indicators ==
    <<"difficult", "hard", "complicated", "confusing",
      "slow", "long wait", "forever", "complicated">>

\* _analyze_customer_experience
analyze_customer_experience(text) ==
    LET text_lower == Lower(text)
        \* sum(1 for indicator in indicators ...) counts list entries, so the
        \* repeated 'complicated' counts twice
        Count(indicators) ==
            Cardinality({i \in 1..Len(indicators) : Contains(text_lower, indicators[i])})
        satisfaction_count == Count(satisfaction_indicators)
        dissatisfaction_count == Count(dissatisfaction_indicators)
        effort_count == Count(effort_indicators)
        difficulty_count == Count(difficulty_indicators)
    IN  Dict(<< <<"customer_satisfaction_indicators", Num(satisfaction_count)>>,
                <<"customer_dissatisfaction_indicators", Num(dissatisfaction_count)>>,
                <<"low_effort_indicators", Num(effort_count)>>,
                <<"high_effort_indicators", Num(difficulty_count)>>,
                <<"net_satisfaction_score", Num(satisfaction_count - dissatisfaction_count)>>,
                <<"net_effort_score", Num(effort_count - difficulty_count)>> >>)

(***************************************************************************)
(* Temporal features                                                       *)
(***************************************************************************)
IsLeap(y) == (y % 4 = 0 /\ y % 100 # 0) \/ y % 400 = 0

DaysInMonth(y, m) ==
    IF m = 2 THEN (IF IsLeap(y) THEN 29 ELSE 28)
    ELSE IF m \in {4, 6, 9, 11} THEN 30 ELSE 31

\* date.weekday(): Monday is 0.  Days since 1970-01-01 (a Thursday).
Weekday(y, m, d) ==
    LET yy == IF m <= 2 THEN y - 1 ELSE y
        era == yy \div 400
        yoe == yy - era * 400
        mp == IF m > 2 THEN m - 3 ELSE m + 9
        doy == (153 * mp + 2) \div 5 + d - 1
        doe == yoe * 365 + yoe \div 4 - yoe \div 100 + doy
        days == era * 146097 + doe - 719468
    IN  (days + 3) % 7

DayNames ==
    <<"Monday", "Tuesday", "Wednesday", "Thursday", "Friday", "Saturday", "Sunday">>

MonthNames ==
    <<"January", "February", "March", "April", "May", "June", "July", "August",
      "September", "October", "November", "December">>

NoDate == [ok |-> FALSE, year |-> 0, month |-> 0, day |-> 0, hour |-> 0,
           minute |-> 0, second |-> 0]

\* datetime.fromisoformat on the shapes "YYYY-MM-DD" and
\* "YYYY-MM-DD?HH:MM:SS" with an optional "+HH:MM" / "-HH:MM" offset; ok is
\* FALSE for the ValueError.  Other shapes the library accepts (fractions of
\* a second, basic format) are not among the inputs of this model.
ParseDatePart(s) ==
    LET y == SubSeq(s, 1, 4)
        m == SubSeq(s, 6, 7)
        d == SubSeq(s, 9, 10)
    IN  IF /\ Len(s) = 10
           /\ AllDigits(y) /\ AllDigits(m) /\ AllDigits(d)
           /\ SubSeq(s, 5, 5) = "-" /\ SubSeq(s, 8, 8) = "-"
           /\ StrToNat(y) >= 1
           /\ StrToNat(m) \in 1..12
           /\ StrToNat(d) >= 1 /\ StrToNat(d) <= DaysInMonth(StrToNat(y), StrToNat(m))
        THEN [NoDate EXCEPT !.ok = TRUE, !.year = StrToNat(y), !.month = StrToNat(m),
                            !.day = StrToNat(d)]
        ELSE NoDate

ValidClock(s) ==
    /\ Len(s) = 8
    /\ AllDigits(SubSeq(s, 1, 2)) /\ AllDigits(SubSeq(s, 4, 5)) /\ AllDigits(SubSeq(s, 7, 8))
    /\ SubSeq(s, 3, 3) = ":" /\ SubSeq(s, 6, 6) = ":"
    /\ StrToNat(SubSeq(s, 1, 2)) <= 23
    /\ StrToNat(SubSeq(s, 4, 5)) <= 59
    /\ StrToNat(SubSeq(s, 7, 8)) <= 59

ValidOffset(s) ==
    \/ s = ""
    \/ /\ Len(s) = 6
       /\ SubSeq(s, 1, 1) \in {"+", "-"}
       /\ AllDigits(SubSeq(s, 2, 3)) /\ AllDigits(SubSeq(s, 5, 6))
       /\ SubSeq(s, 4, 4) = ":"
       /\ StrToNat(SubSeq(s, 2, 3)) <= 23
       /\ StrToNat(SubSeq(s, 5, 6)) <= 59

fromisoformat(s) ==
    IF Len(s) = 10 THEN ParseDatePart(s)
    ELSE IF Len(s) \in {19, 25}
    THEN LET date == ParseDatePart(SubSeq(s, 1, 10))
             clock == SubSeq(s, 12, 19)
         IN  IF date.ok /\ ValidClock(clock) /\ ValidOffset(SubSeq(s, 20, Len(s)))
             THEN [date EXCEPT !.hour = StrToNat(SubSeq(clock, 1, 2)),
                               !.minute = StrToNat(SubSeq(clock, 4, 5)),
                               !.second = StrToNat(SubSeq(clock, 7, 8))]
             ELSE NoDate
    ELSE NoDate

\* _get_default_temporal_features
get_default_temporal_features ==
    Dict(<< <<"call_date", Str("2025-01-01")>>,
            <<"call_time", Str("12:00:00")>>,
            <<"call_hour", Num(12)>>,
            <<"call_day_of_week", Str("Monday")>>,
            <<"call_month", Str("January")>>,
            <<"call_year", Num(2025)>>,
            <<"is_weekend", Bool(FALSE)>>,
            <<"is_business_hours", Bool(TRUE)>>,
            <<"call_quarter", Str("Q1")>> >>)

parsed_temporal_features(dt) ==
    Dict(<< <<"call_date", Str(ZeroPad(IntToStr(dt.year), 4) \o "-"
                               \o ZeroPad(IntToStr(dt.month), 2) \o "-"
                               \o ZeroPad(IntToStr(dt.day), 2))>>,
            <<"call_time", Str(ZeroPad(IntToStr(dt.hour), 2) \o ":"
                               \o ZeroPad(IntToStr(dt.minute), 2) \o ":"
                               \o ZeroPad(IntToStr(dt.second), 2))>>,
            <<"call_hour", Num(dt.hour)>>,
            <<"call_day_of_week",
              Str(DayNames[Weekday(dt.year, dt.month, dt.day) + 1])>>,
            <<"call_month", Str(MonthNames[dt.month])>>,
            <<"call_year", Num(dt.year)>>,
            <<"is_weekend", Bool(Weekday(dt.year, dt.month, dt.day) >= 5)>>,
            <<"is_business_hours", Bool(9 <= dt.hour /\ dt.hour <= 17)>>,
            <<"call_quarter", Str("Q" \o IntToStr((dt.month - 1) \div 3 + 1))>> >>)

extract_temporal_features_no_handler(created_at) ==
    IF ~Truthy(created_at) THEN [ok |-> TRUE, val |-> get_default_temporal_features]
    ELSE IF ~IsStr(created_at) THEN [ok |-> FALSE]
    ELSE LET dt == fromisoformat(Replace(created_at.v, "Z", "+00:00"))
         IN  IF dt.ok THEN [ok |-> TRUE, val |-> parsed_temporal_features(dt)]
             ELSE [ok |-> FALSE]

\* _extract_temporal_features: [ok, val]; every exception of its body is
\* caught and answered with the defaults, so ok is always TRUE
extract_temporal_features(created_at) ==
    IF ~Truthy(created_at) THEN [ok |-> TRUE, val |-> get_default_temporal_features]
    ELSE IF ~IsStr(created_at)
    THEN [ok |-> TRUE, val |-> get_default_temporal_features]
    ELSE LET dt == fromisoformat(Replace(created_at.v, "Z", "+00:00"))
         IN  IF dt.ok THEN [ok |-> TRUE, val |-> parsed_temporal_features(dt)]
             ELSE [ok |-> TRUE, val |-> get_default_temporal_features]

(***************************************************************************)
(* Outcome and urgency                                                     *)
(***************************************************************************)
resolved_words == <<"resolved", "fixed", "solved", "helped", "booked", "scheduled">>
followup_words == <<"follow up", "call back", "transfer", "escalate">>
cancelled_words == <<"cancel", "cancelled", "no longer", "changed mind">>
complaint_words == <<"complaint", "refund", "manager", "dissatisfied">>

classify_call_outcome_complaint_first(text) ==
    LET text_lower == Lower(text) IN
    IF AnyIn(resolved_words, text_lower) THEN "resolved"
    ELSE IF AnyIn(complaint_words, text_lower) THEN "complaint"
    ELSE IF AnyIn(followup_words, text_lower) THEN "requires_followup"
    ELSE IF AnyIn(cancelled_words, text_lower) THEN "cancelled"
    ELSE "completed"

classify_call_outcome_cancelled_first(text) ==
    LET text_lower == Lower(text) IN
    IF AnyIn(resolved_words, text_lower) THEN "resolved"
    ELSE IF AnyIn(cancelled_words, text_lower) THEN "cancelled"
    ELSE IF AnyIn(followup_words, text_lower) THEN "requires_followup"
    ELSE IF AnyIn(complaint_words, text_lower) THEN "complaint"
    ELSE "completed"

\* _classify_call_outcome
classify_call_outcome(text) ==
    LET text_lower == Lower(text) IN
    IF AnyIn(resolved_words, text_lower) THEN "resolved"
    ELSE IF AnyIn(followup_words, text_lower) THEN "requires_followup"
    ELSE IF AnyIn(cancelled_words, text_lower) THEN "cancelled"
    ELSE IF AnyIn(complaint_words, text_lower) THEN "complaint"
    ELSE "completed"

high_urgency == <<"urgent", "emergency", "asap", "immediately", "crisis", "critical">>
medium_urgency == <<"soon", "today", "this week", "important", "need help">>

\* _classify_urgency
classify_urgency(text) ==
    LET text_lower == Lower(text) IN
    IF AnyIn(high_urgency, text_lower) THEN "high"
    ELSE IF AnyIn(medium_urgency, text_lower) THEN "medium"
    ELSE "low"

(***************************************************************************)
(* Enrichment and export                                                   *)
(***************************************************************************)
\* _enrich_conversation_data: [ok, val]; ok is FALSE when a sub-feature
\* raises, which nothing in the function catches.  conversation is the
\* call_details dict; its conversation_text is a string.
enrich_conversation_data(conversation) ==
    LET text == IF "conversation_text" \in DOMAIN conversation.val
                THEN conversation.val["conversation_text"].v ELSE ""
        created_at == IF "created_at" \in DOMAIN conversation.val
                      THEN conversation.val["created_at"] ELSE Str("")
        topics == classify_topics(text)
        temporal_features == extract_temporal_features(created_at)
    IN  IF ~topics.ok \/ ~temporal_features.ok THEN [ok |-> FALSE]
        ELSE [ok |-> TRUE,
              val |->
                DictSet(
                  DictSet(
                    DictUpdate(
                      DictUpdate(
                        DictUpdate(
                          DictUpdate(
                            DictUpdate(
                              DictUpdate(conversation, analyze_sentiment(text)),
                              topics.val),
                            assess_call_quality(text, conversation)),
                          analyze_script_adherence(text)),
                        analyze_customer_experience(text)),
                      temporal_features.val),
                    "call_outcome", Str(classify_call_outcome(text))),
                  "urgency_level", Str(classify_urgency(text)))]

\* a variant that updates the caller's dict in place (enriched = conversation)
enrich_call_in_place(self_processed_data, conversation) ==
    LET enriched == enrich_conversation_data(conversation) IN
    [processed_data |-> self_processed_data,
     conversation |-> IF enriched.ok THEN enriched.val ELSE conversation,
     result |-> enriched]

\* one call of _enrich_conversation_data with what it leaves behind: the
\* processor's processed_data, the caller's dict (line 60 works on a copy
\* and the sub-features only read it) and what it returns
enrich_call(self_processed_data, conversation) ==
    [processed_data |-> self_processed_data,
     conversation |-> conversation,
     result |-> enrich_conversation_data(conversation)]

column_order ==
    <<"conversation_id", "subject", "created_at", "call_date", "call_time",
      "agent_name", "agent_email", "customer_name", "customer_phone",
      "location", "duration_seconds", "message_count", "conversation_type",
      "primary_topic", "call_outcome", "urgency_level",
      "sentiment_polarity", "sentiment_label", "customer_satisfaction_score",
      "call_quality_score", "script_adherence_rate",
      "call_hour", "call_day_of_week", "is_weekend", "is_business_hours">>

\* pd.DataFrame(list of dicts).columns: the keys in the order they first
\* appear over the records
RECURSIVE columns_upto(_, _)
columns_upto(records, n) ==
    IF n = 0 THEN << >>
    ELSE LET before == columns_upto(records, n - 1)
         IN  before \o SelectSeq(records[n].keys, LAMBDA k : k \notin Range(before))

dataframe_columns(records) == columns_upto(records, Len(records))

final_columns_priority_only(df_columns) ==
    SelectSeq(column_order, LAMBDA col : col \in Range(df_columns))

\* export_to_csv, lines 397-400: existing_cols + additional_cols
final_columns(df_columns) ==
    LET existing_cols == SelectSeq(column_order, LAMBDA col : col \in Range(df_columns))
        additional_cols == SelectSeq(df_columns, LAMBDA col : col \notin Range(column_order))
    IN  existing_cols \o additional_cols

\* df[final_columns]: a record's cells in column order; a record without the
\* column has a missing value (NaN), written as an empty cell
csv_row(record, columns) ==
    [i \in 1..Len(columns) |->
        IF columns[i] \in DOMAIN record.val THEN record.val[columns[i]] ELSE Null]

(***************************************************************************)
(* Inputs                                                                  *)
(***************************************************************************)
NumFiles == 3
MaxTurns == 2

AgentParty ==
    Obj([name |-> Str("Support Team"), email |-> Str("help@feelgoodspas.com"),
         tel |-> Str("555-0001"), location |-> Str("Downtown")])

CustomerParty ==
    Obj([name |-> Str("Jane Doe"), email |-> Str("jane@mail.com"),
         tel |-> Str("555-0100")])

Turn(type, party, duration, body) ==
    Obj([type |-> Str(type), party |-> Num(party), duration |-> Num(duration),
         body |-> Str(body)])

GreetingTurn == Turn("text", 0, 30, "Thank you for calling Feel Good Spas, this is Ann speaking")
BookingTurn == Turn("text", 1, 200, "I want to book a massage")
RudeTurn == Turn("text", 1, 1000, "You were RUDE, I want to escalate to a manager")
SorryTurn == Turn("text", 0, 0, "I am sorry, please let me help")
ResolvedTurn == Turn("text", 0, 90, "Your issue is resolved, anything else?")
HelloTurn == Turn("text", 1, 950, "Hello there")
EmptyTurn == Turn("text", 1, 10, "")
RecordingTurn == Turn("recording", 0, 300, "call audio")

TurnChoices ==
    {GreetingTurn, BookingTurn, RudeTurn, SorryTurn, ResolvedTurn, HelloTurn,
     EmptyTurn, RecordingTurn}

\* all optional fields present
ConvFull ==
    Obj([id |-> Str("c-full"), subject |-> Str("Massage booking"),
         created_at |-> Str("2025-03-15T14:30:00Z"),
         updated_at |-> Str("2025-03-15T15:00:00Z"),
         vcon_json |-> Obj([parties |-> List(<<AgentParty, CustomerParty>>),
                            dialog |-> List(<<GreetingTurn, BookingTurn>>),
                            analysis |-> List(<<Obj([type |-> Str("summary")])>>)])])

\* every optional field absent
ConvBare == Obj(EmptyRec)

\* created_at absent, uuid in place of id
ConvNoTime ==
    Obj([uuid |-> Str("c-notime"),
         vcon_json |-> Obj([parties |-> List(<<CustomerParty>>),
                            dialog |-> List(<<BookingTurn, RudeTurn>>)])])

\* created_at unparseable
ConvBadTime ==
    Obj([id |-> Str("c-badtime"), created_at |-> Str("yesterday at noon"),
         vcon_json |-> Obj([dialog |-> List(<<BookingTurn, ResolvedTurn>>)])])

\* a transcript without any topic keyword
ConvHello ==
    Obj([id |-> Str("c-hello"), created_at |-> Str("2024-02-29T08:05:09"),
         vcon_json |-> Obj([parties |-> List(<<AgentParty, CustomerParty>>),
                            dialog |-> List(<<HelloTurn>>)])])

\* conversations whose decoding fails
ConvNotObject == Str("bad-notobject")
ConvNullVcon == Obj([id |-> Str("bad-nullvcon"), vcon_json |-> Null])
ConvBadParty ==
    Obj([id |-> Str("bad-party"),
         vcon_json |-> Obj([parties |-> List(<<Obj([name |-> Null])>>),
                            dialog |-> List(<<BookingTurn>>)])])
ConvBadBody ==
    Obj([id |-> Str("bad-body"),
         vcon_json |-> Obj([dialog |-> List(<<BookingTurn,
                                              Obj([body |-> Num(5)])>>)])])

BadConversations == {ConvNotObject, ConvNullVcon, ConvBadParty, ConvBadBody}

\* what an input path holds
MissingFile == [kind |-> "missing"]
InvalidJsonFile == [kind |-> "invalid_json"]
JsonFile(data) == [kind |-> "json", data |-> data]

FileCatalogue ==
    {MissingFile,
     InvalidJsonFile,
     JsonFile(ConvBare),
     JsonFile(List(<<ConvNoTime, ConvNotObject, ConvBadTime>>)),
     JsonFile(List(<<ConvNullVcon, ConvBadParty, ConvBadBody>>)),
     JsonFile(List(<<ConvFull, ConvHello, ConvBadTime>>))}

PathPattern(i) == [kind |-> "path", file |-> i]
\* a glob pattern with the order in which the directory lists the files
GlobPattern(listing) == [kind |-> "glob", listing |-> listing]

\* the directory listings drawn: the files in ascending or descending order
DirectoryListings ==
    {[i \in 1..NumFiles |-> i], [i \in 1..NumFiles |-> NumFiles + 1 - i]}

\* the dataset a previous run left at the output path
OldDataset ==
    [state |-> "complete", columns |-> <<"conversation_id", "subject">>,
     rows |-> << <<Str("c-old"), Str("Old call")>> >>]

(***************************************************************************)
(* State                                                                   *)
(***************************************************************************)
VARIABLES
    fs,               \* the content of input path i
    file_patterns,    \* the argument of process_vcon_files
    pc,               \* where main is
    pattern_idx,      \* the pattern the outer loop is at
    files,            \* the files of the current pattern still to visit
    conversations,    \* VConParser.conversations
    parsed_data,      \* VConParser.parsed_data
    business_data,    \* the result of extract_business_data
    processed_data,   \* SpaDataProcessor.processed_data
    processed_files,  \* the local of process_vcon_files
    report,           \* what main prints at its end
    csv,              \* the file at the output path
    fn_pc,            \* the sub-feature probes: where they are
    fn_in,            \* their input
    fn_out            \* their result

vars == <<fs, file_patterns, pc, pattern_idx, files, conversations, parsed_data,
          business_data, processed_data, processed_files, report, csv,
          fn_pc, fn_in, fn_out>>

pipeline_vars == <<fs, file_patterns, pc, pattern_idx, files, conversations,
                   parsed_data, business_data, processed_data, processed_files,
                   report, csv>>

fn_vars == <<fn_pc, fn_in, fn_out>>

(***************************************************************************)
(* The enrichment run: main, process_vcon_files, export_to_csv             *)
(***************************************************************************)
Init ==
    /\ fs \in [1..NumFiles -> FileCatalogue]
    /\ file_patterns \in
          {[i \in 1..NumFiles |-> PathPattern(i)]} \cup
          {[i \in 1..(NumFiles + 1) |->
               IF i <= NumFiles THEN PathPattern(i) ELSE GlobPattern(listing)] :
             listing \in DirectoryListings}
    /\ pc = "main"
    /\ pattern_idx = 1
    /\ files = << >>
    /\ conversations = << >>
    /\ parsed_data = << >>
    /\ business_data = << >>
    /\ processed_data = << >>
    /\ processed_files = << >>
    /\ report = "none"
    /\ csv = OldDataset
    /\ fn_pc = "idle"
    /\ fn_in = Null
    /\ fn_out = Null

\* os.path.exists(path)
Exists(i) == fs[i].kind # "missing"

\* lines 33-38: the files of one pattern.  A path that does not exist is
\* handed to glob, which matches nothing; the glob pattern matches every
\* existing input file, in the order the directory lists them.
pattern_files(pattern) ==
    IF pattern.kind = "path"
    THEN IF Exists(pattern.file) THEN <<pattern.file>> ELSE << >>
    ELSE SelectSeq(pattern.listing, Exists)

\* main calls process_vcon_files
StartProcessing ==
    /\ pc = "main"
    /\ pc' = "pattern"
    /\ UNCHANGED <<fs, file_patterns, pattern_idx, files, conversations, parsed_data,
                   business_data, processed_data, processed_files, report, csv>>
    /\ UNCHANGED fn_vars

\* the outer loop of process_vcon_files takes its next pattern
NextPattern ==
    /\ pc = "pattern"
    /\ pattern_idx <= Len(file_patterns)
    /\ files' = pattern_files(file_patterns[pattern_idx])
    /\ pattern_idx' = pattern_idx + 1
    /\ pc' = "file"
    /\ UNCHANGED <<fs, file_patterns, conversations, parsed_data, business_data,
                   processed_data, processed_files, report, csv>>
    /\ UNCHANGED fn_vars

\* the inner loop is through with the files of the pattern
PatternDone ==
    /\ pc = "file"
    /\ files = << >>
    /\ pc' = "pattern"
    /\ UNCHANGED <<fs, file_patterns, pattern_idx, files, conversations, parsed_data,
                   business_data, processed_data, processed_files, report, csv>>
    /\ UNCHANGED fn_vars

\* load_vcon_file on the next file: True with conversations replaced, or
\* False (every exception is caught) and the loop goes on with the next file
LoadFile ==
    /\ pc = "file"
    /\ files # << >>
    /\ IF fs[Head(files)].kind = "json"
       THEN /\ conversations' =
                  (IF fs[Head(files)].data.t = "list"
                   THEN fs[Head(files)].data.v
                   ELSE <<fs[Head(files)].data>>)
            /\ pc' = "parse"
            /\ UNCHANGED <<files, report>>
       ELSE /\ files' = Tail(files)
            /\ UNCHANGED <<conversations, pc, report>>
    /\ UNCHANGED <<fs, file_patterns, pattern_idx, parsed_data, business_data,
                   processed_data, processed_files, csv>>
    /\ UNCHANGED fn_vars

\* parse_conversations
ParseConversations ==
    /\ pc = "parse"
    /\ parsed_data' = parse_from(conversations, 1)
    /\ pc' = "extract"
    /\ UNCHANGED <<fs, file_patterns, pattern_idx, files, conversations,
                   business_data, processed_data, processed_files, report, csv>>
    /\ UNCHANGED fn_vars

\* extract_business_data
ExtractBusinessData ==
    /\ pc = "extract"
    /\ business_data' = extract_business_data(parsed_data)
    /\ pc' = "enrich"
    /\ UNCHANGED <<fs, file_patterns, pattern_idx, files, conversations,
                   parsed_data, processed_data, processed_files, report, csv>>
    /\ UNCHANGED fn_vars

\* the rows of the conversations before the first one whose enrichment raises
RECURSIVE enriched_prefix(_, _)
enriched_prefix(data, i) ==
    IF i > Len(data) THEN << >>
    ELSE LET enriched_data == enrich_conversation_data(data[i]) IN
         IF enriched_data.ok
         THEN <<enriched_data.val>> \o enriched_prefix(data, i + 1)
         ELSE << >>

\* lines 48-53: the enrichment loop over business_data.  An exception of
\* _enrich_conversation_data is caught nowhere: it leaves process_vcon_files
\* and main, after the rows appended so far.
EnrichFile ==
    /\ pc = "enrich"
    /\ processed_data' = processed_data \o enriched_prefix(business_data, 1)
    /\ IF \A i \in 1..Len(business_data) : enrich_conversation_data(business_data[i]).ok
       THEN /\ processed_files' = Append(processed_files, Head(files))
            /\ files' = Tail(files)
            /\ pc' = "file"
       ELSE /\ pc' = "crashed"
            /\ UNCHANGED <<processed_files, files>>
    /\ UNCHANGED <<fs, file_patterns, pattern_idx, conversations, parsed_data,
                   business_data, report, csv>>
    /\ UNCHANGED fn_vars

\* process_vcon_files returns len(processed_files) > 0; on False main reports
\* the failure
ProcessReturn ==
    /\ pc = "pattern"
    /\ pattern_idx > Len(file_patterns)
    /\ IF Len(processed_files) > 0
       THEN pc' = "export" /\ UNCHANGED report
       ELSE pc' = "done" /\ report' = "process_failed"
    /\ UNCHANGED <<fs, file_patterns, pattern_idx, files, conversations, parsed_data,
                   business_data, processed_data, processed_files, csv>>
    /\ UNCHANGED fn_vars

new_dataset_appended(n) ==
    LET columns == final_columns(dataframe_columns(processed_data))
    IN  [state |-> IF n = Len(processed_data) THEN "complete" ELSE "partial",
         columns |-> columns,
         rows |-> csv.rows \o [i \in 1..n |-> csv_row(processed_data[i], columns)]]

\* the dataset df.to_csv writes
new_dataset(n) ==
    LET columns == final_columns(dataframe_columns(processed_data))
    IN  [state |-> IF n = Len(processed_data) THEN "complete" ELSE "partial",
         columns |-> columns,
         rows |-> [i \in 1..n |-> csv_row(processed_data[i], columns)]]

\* export_to_csv and main's report.  Without data it returns False.  The
\* write opens the output path for writing, which empties it, and writes the
\* rows; an error in it (the except branch, False) leaves the old file when
\* the open fails and the rows written so far otherwise.
ExportToCsv ==
    /\ pc = "export"
    /\ IF processed_data = << >>
       THEN /\ report' = "export_failed"
            /\ UNCHANGED csv
       ELSE \/ /\ csv' = new_dataset(Len(processed_data))
               /\ report' = "success"
            \/ /\ csv' \in {csv} \cup {new_dataset(n) : n \in 0..(Len(processed_data) - 1)}
               /\ report' = "export_failed"
    /\ pc' = "done"
    /\ UNCHANGED <<fs, file_patterns, pattern_idx, files, conversations, parsed_data,
                   business_data, processed_data, processed_files>>
    /\ UNCHANGED fn_vars

Next ==
    \/ StartProcessing
    \/ NextPattern
    \/ PatternDone
    \/ LoadFile
    \/ ParseConversations
    \/ ExtractBusinessData
    \/ EnrichFile
    \/ ProcessReturn
    \/ ExportToCsv

Spec == Init /\ [][Next]_vars

(***************************************************************************)
(* The pipeline run twice on the same input files: a second                *)
(* process_vcon_files and export_to_csv on the processor of the first run, *)
(* or on a new SpaDataProcessor as a second start of main makes it         *)
(***************************************************************************)
RerunCatalogue ==
    {InvalidJsonFile,
     JsonFile(ConvBare),
     JsonFile(ConvFull),
     JsonFile(List(<<ConvNoTime, ConvNotObject, ConvBadTime>>))}

InitRerun ==
    /\ fs \in [1..NumFiles -> RerunCatalogue]
    /\ file_patterns = [i \in 1..NumFiles |-> PathPattern(i)]
    /\ pc = "main"
    /\ pattern_idx = 1
    /\ files = << >>
    /\ conversations = << >>
    /\ parsed_data = << >>
    /\ business_data = << >>
    /\ processed_data = << >>
    /\ processed_files = << >>
    /\ report = "none"
    /\ csv = OldDataset
    /\ fn_pc = "first_run"
    /\ fn_in = Null
    /\ fn_out = Null

\* process_vcon_files is called again on the same SpaDataProcessor:
\* processed_files is a new local, self.processed_data and the parser's
\* lists are what the first run left
RunAgainSameProcessor ==
    /\ pc = "done"
    /\ fn_pc = "first_run"
    /\ fn_pc' = "same_processor"
    /\ fn_in' = [csv |-> csv, report |-> report]
    /\ pc' = "pattern"
    /\ pattern_idx' = 1
    /\ files' = << >>
    /\ processed_files' = << >>
    /\ report' = "none"
    /\ UNCHANGED <<fs, file_patterns, conversations, parsed_data, business_data,
                   processed_data, csv, fn_out>>

\* main is started again: SpaDataProcessor() and its VConParser() start empty
RunAgainNewProcessor ==
    /\ pc = "done"
    /\ fn_pc = "first_run"
    /\ fn_pc' = "new_processor"
    /\ fn_in' = [csv |-> csv, report |-> report]
    /\ pc' = "pattern"
    /\ pattern_idx' = 1
    /\ files' = << >>
    /\ conversations' = << >>
    /\ parsed_data' = << >>
    /\ business_data' = << >>
    /\ processed_data' = << >>
    /\ processed_files' = << >>
    /\ report' = "none"
    /\ UNCHANGED <<fs, file_patterns, csv, fn_out>>

NextRerun ==
    \/ Next
    \/ RunAgainSameProcessor
    \/ RunAgainNewProcessor

SpecRerun == InitRerun /\ [][NextRerun]_vars

(***************************************************************************)
(* The sub-features on their own: a conversation is drawn, parsed into its *)
(* call_details, and every sub-feature is applied to its transcript        *)
(***************************************************************************)
Absent == [t |-> "absent"]

CreatedAtChoices ==
    {Absent, Str(""), Null, Num(1753848151), Str("yesterday at noon"),
     Str("2025-02-30T10:00:00Z"), Str("2025-03-15T14:30:00Z"), Str("2024-12-31")}

\* the choices that are no timestamp: missing or unparseable
BadCreatedAt ==
    {Absent, Str(""), Null, Num(1753848151), Str("yesterday at noon"),
     Str("2025-02-30T10:00:00Z")}

RECURSIVE SeqsUpTo(_, _)
SeqsUpTo(S, n) ==
    IF n = 0 THEN {<< >>}
    ELSE LET shorter == SeqsUpTo(S, n - 1)
         IN  shorter \cup {Append(q, x) : q \in shorter, x \in S}

TextConversation(dialog, created_at) ==
    IF created_at = Absent
    THEN Obj([id |-> Str("c-text"),
              vcon_json |-> Obj([dialog |-> List(dialog)])])
    ELSE Obj([id |-> Str("c-text"), created_at |-> created_at,
              vcon_json |-> Obj([dialog |-> List(dialog)])])

IdlePipeline ==
    /\ fs = [i \in 1..NumFiles |-> MissingFile]
    /\ file_patterns = << >>
    /\ pc = "idle"
    /\ pattern_idx = 1
    /\ files = << >>
    /\ conversations = << >>
    /\ parsed_data = << >>
    /\ business_data = << >>
    /\ processed_data = << >>
    /\ processed_files = << >>
    /\ report = "none"
    /\ csv = OldDataset

InitText ==
    /\ IdlePipeline
    /\ fn_pc = "input"
    /\ \E dialog \in SeqsUpTo(TurnChoices, MaxTurns), created_at \in CreatedAtChoices :
          fn_in = [created_at |-> created_at,
                   conversation |-> TextConversation(dialog, created_at)]
    /\ fn_out = Null

\* parse_conversations and extract_business_data on the one conversation
BuildCallDetails ==
    /\ fn_pc = "input"
    /\ fn_out' = extract_business_data(parse_from(<<fn_in.conversation>>, 1))
    /\ fn_pc' = "details"
    /\ UNCHANGED fn_in
    /\ UNCHANGED pipeline_vars

\* every sub-feature of _enrich_conversation_data on the call_details, and
\* _enrich_conversation_data itself
ApplySubFeatures ==
    /\ fn_pc = "details"
    /\ Len(fn_out) = 1
    /\ LET conversation == fn_out[1]
           text == conversation.val["conversation_text"].v
       IN  fn_out' =
             [text |-> text,
              duration |-> conversation.val["duration_seconds"].v,
              sentiment |-> analyze_sentiment(text),
              topics |-> classify_topics(text),
              quality |-> assess_call_quality(text, conversation),
              script |-> analyze_script_adherence(text),
              cx |-> analyze_customer_experience(text),
              temporal |-> extract_temporal_features(conversation.val["created_at"]),
              outcome |-> classify_call_outcome(text),
              urgency |-> classify_urgency(text),
              enriched |-> enrich_conversation_data(conversation)]
    /\ fn_pc' = "applied"
    /\ UNCHANGED fn_in
    /\ UNCHANGED pipeline_vars

NextText == BuildCallDetails \/ ApplySubFeatures

SpecText == InitText /\ [][NextText]_vars

(***************************************************************************)
(* Role resolution on its own                                              *)
(***************************************************************************)
NameChoices ==
    {Absent, Str(""), Str("Support Team"), Str("AGENT Smith"), Str("Sales Rep"),
     Str("Customer Service"), Str("Mary Prepper"), Str("Jane Doe"), Str("Bob")}

EmailChoices ==
    {Absent, Str(""), Str("jane@mail.com"), Str("help@feelgoodspas.com"),
     Str("HELP@FeelGoodSpas.COM"), Str("bob@dayspa.org"), Str("spa.fan@mail.com"),
     Str("sparks@mail.com"), Str("bob@example.com")}

PartyOf(name, email) ==
    IF name = Absent /\ email = Absent THEN EmptyRec
    ELSE IF name = Absent THEN [email |-> email]
    ELSE IF email = Absent THEN [name |-> name]
    ELSE [name |-> name, email |-> email]

InitRole ==
    /\ IdlePipeline
    /\ fn_pc = "party"
    /\ \E name \in NameChoices, email \in EmailChoices :
          fn_in = [name |-> name, email |-> email, party |-> PartyOf(name, email)]
    /\ fn_out = Null

\* _extract_parties on the one party
ResolveRole ==
    /\ fn_pc = "party"
    /\ fn_out' = extract_parties(List(<<Obj(fn_in.party)>>))
    /\ fn_pc' = "resolved"
    /\ UNCHANGED fn_in
    /\ UNCHANGED pipeline_vars

NextRole == ResolveRole

SpecRole == InitRole /\ [][NextRole]_vars

(***************************************************************************)
(* The party lookups on their own: a conversation with a drawn party list  *)
(* is parsed and its agent and customer are looked up                      *)
(***************************************************************************)
MaxParties == 3

SecondAgentParty ==
    Obj([name |-> Str("Sales Rep"), tel |-> Str("555-0002"),
         location |-> Str("Uptown")])

SecondCustomerParty == Obj([name |-> Str("Bob"), tel |-> Str("555-0200")])

\* a party without any field: its role resolves to customer
NamelessParty == Obj(EmptyRec)

PartyChoices ==
    {AgentParty, CustomerParty, SecondAgentParty, SecondCustomerParty, NamelessParty}

PartyConversation(parties) ==
    Obj([id |-> Str("c-party"),
         vcon_json |-> Obj([parties |-> List(parties),
                            dialog |-> List(<<BookingTurn>>)])])

InitParty ==
    /\ IdlePipeline
    /\ fn_pc = "parties"
    /\ \E parties \in SeqsUpTo(PartyChoices, MaxParties) :
          fn_in = [parties |-> parties, conversation |-> PartyConversation(parties)]
    /\ fn_out = Null

\* parse_conversations, then the two lookups and extract_business_data
LookupParties ==
    /\ fn_pc = "parties"
    /\ LET parsed == parse_from(<<fn_in.conversation>>, 1)
       IN  /\ Len(parsed) = 1
           /\ fn_out' = [parsed |-> parsed[1],
                         agent |-> get_agent_info(parsed[1]),
                         customer |-> get_customer_info(parsed[1]),
                         details |-> extract_business_data(parsed)[1]]
    /\ fn_pc' = "looked_up"
    /\ UNCHANGED fn_in
    /\ UNCHANGED pipeline_vars

NextParty == LookupParties

SpecParty == InitParty /\ [][NextParty]_vars

(***************************************************************************)
(* Outcome and quality on their own: a transcript made of drawn phrases    *)
(* and a drawn duration                                                    *)
(***************************************************************************)
MaxPhrases == 2

CallPhrases ==
    {"It is FIXED now",
     "Please call back",
     "I want to cancel",
     "I want a refund from the manager",
     "You were rude, escalate",
     "thank you please help understand sorry apologize certainly absolutely of course glad to help",
     "Hello there",
     "I am upset and angry",
     "It was complicated and confusing",
     "Quick and easy, I am happy"}

\* the durations around the thresholds of _assess_call_quality
DurationChoices == {0, 119, 120, 600, 601, 900, 901}

InitCall ==
    /\ IdlePipeline
    /\ fn_pc = "call"
    /\ \E phrases \in SeqsUpTo(CallPhrases, MaxPhrases), duration \in DurationChoices :
          fn_in = [text |-> Join(phrases, "\n"), duration |-> duration]
    /\ fn_out = Null

\* _classify_call_outcome, _analyze_customer_experience and
\* _assess_call_quality on the transcript
AssessCall ==
    /\ fn_pc = "call"
    /\ fn_out' =
          [text |-> fn_in.text,
           duration |-> fn_in.duration,
           outcome |-> classify_call_outcome(fn_in.text),
           cx |-> analyze_customer_experience(fn_in.text),
           quality |-> assess_call_quality(
                          fn_in.text,
                          Dict(<< <<"duration_seconds", Num(fn_in.duration)>> >>))]
    /\ fn_pc' = "assessed"
    /\ UNCHANGED fn_in
    /\ UNCHANGED pipeline_vars

NextCall == AssessCall

SpecCall == InitCall /\ [][NextCall]_vars

(***************************************************************************)
(* The dialog on its own: a conversation with a drawn dialog is parsed and *)
(* its call_details are extracted                                          *)
(***************************************************************************)
DialogTurnChoices ==
    {Turn("text", 0, 30, "Your appointment is BOOKED"),
     Turn("text", 1, 60, "I have a problem with the charge"),
     Turn("text", 1, 20, "I want a refund of the payment"),
     Turn("text", 0, 10, "Our spa offers facial treatment"),
     Turn("recording", 0, 300, "massage invoice"),
     Turn("text", 1, 5, ""),
     Turn("text", 2, 15, "Hello there"),
     Obj([type |-> Str("text"), party |-> Num(1), duration |-> Str("45"),
          body |-> Str("Hello there")]),
     Obj([body |-> Str("so unhappy")])}

\* the analysis lists a conversation comes with
AnalysisChoices ==
    {<< >>, <<Obj([type |-> Str("summary"), vendor |-> Str("acme")])>>}

DialogConversation(dialog, analysis) ==
    Obj([id |-> Str("c-dialog"),
         vcon_json |-> Obj([dialog |-> List(dialog), analysis |-> List(analysis)])])

InitDialog ==
    /\ IdlePipeline
    /\ fn_pc = "dialog"
    /\ \E dialog \in SeqsUpTo(DialogTurnChoices, MaxTurns), analysis \in AnalysisChoices :
          fn_in = [dialog |-> dialog, analysis |-> analysis,
                   conversation |-> DialogConversation(dialog, analysis)]
    /\ fn_out = Null

\* parse_conversations and extract_business_data on the one conversation,
\* and _classify_topics on its transcript
ParseDialog ==
    /\ fn_pc = "dialog"
    /\ LET parsed == parse_from(<<fn_in.conversation>>, 1)
       IN  /\ Len(parsed) = 1
           /\ fn_out' =
                 LET details == extract_business_data(parsed)[1] IN
                 [parsed |-> parsed[1],
                  details |-> details,
                  topics |-> classify_topics(details.val["conversation_text"].v)]
    /\ fn_pc' = "parsed"
    /\ UNCHANGED fn_in
    /\ UNCHANGED pipeline_vars

NextDialog == ParseDialog

SpecDialog == InitDialog /\ [][NextDialog]_vars

(***************************************************************************)
(* Enrichment called on its own: records of a pool are enriched one call   *)
(* after another, in any order and any number of times                     *)
(***************************************************************************)
MaxCalls == 3

EnrichPool ==
    extract_business_data(parse_from(
        <<TextConversation(<<GreetingTurn, BookingTurn>>, Str("2025-03-15T14:30:00Z")),
          TextConversation(<<RudeTurn>>, Absent),
          TextConversation(<<HelloTurn>>, Str("2024-12-31")),
          TextConversation(<<SorryTurn, ResolvedTurn>>, Str("yesterday at noon")),
          TextConversation(<<RecordingTurn, BookingTurn>>, Null)>>, 1))

InitEnrich ==
    /\ IdlePipeline
    /\ fn_pc = "enriching"
    /\ fn_in = EnrichPool
    /\ fn_out = [processed_data |-> << >>, calls |-> << >>]

\* enriched_data = self._enrich_conversation_data(conversation) on record i
EnrichOne(i) ==
    /\ fn_pc = "enriching"
    /\ Len(fn_out.calls) < MaxCalls
    /\ LET call == enrich_call(fn_out.processed_data, fn_in[i])
       IN  /\ fn_in' = [fn_in EXCEPT ![i] = call.conversation]
           /\ fn_out' = [processed_data |-> call.processed_data,
                         calls |-> Append(fn_out.calls,
                                     [index |-> i, input |-> fn_in[i],
                                      result |-> call.result])]
    /\ UNCHANGED fn_pc
    /\ UNCHANGED pipeline_vars

NextEnrich == \E i \in 1..Len(EnrichPool) : EnrichOne(i)

SpecEnrich == InitEnrich /\ [][NextEnrich]_vars

(***************************************************************************)
(* The sentiment mapping on its own: a transcript and an outcome of the    *)
(* polarity model are drawn                                                *)
(***************************************************************************)
\* polarities in thousandths: a grid over [-1, 1] and the neighbours of the
\* thresholds
PolarityChoices ==
    {q \in -1000..1000 : q % 50 = 0} \cup {-803, -799, -101, -99, 7, 14, 99, 101}

BlobChoices ==
    {[ok |-> FALSE]} \cup
    {[ok |-> TRUE, polarity |-> q, subjectivity |-> 750] : q \in PolarityChoices}

InitSentiment ==
    /\ IdlePipeline
    /\ fn_pc = "sentiment"
    /\ \E text \in {"", "Customer: Hello there"}, blob \in BlobChoices :
          fn_in = [text |-> text, blob |-> blob]
    /\ fn_out = Null

\* sentiment_data = self._analyze_sentiment(text)
AnalyzeSentiment ==
    /\ fn_pc = "sentiment"
    /\ fn_out' = analyze_sentiment_with(fn_in.text, fn_in.blob)
    /\ fn_pc' = "analyzed"
    /\ UNCHANGED fn_in
    /\ UNCHANGED pipeline_vars

NextSentiment == AnalyzeSentiment

SpecSentiment == InitSentiment /\ [][NextSentiment]_vars

(***************************************************************************)
(* conversational_ai.SpaConversationalAI: chat and reset_conversation      *)
(***************************************************************************)
MaxChats == 3

\* _generate_suggestions
generate_suggestions(user_message) ==
    LET message_lower == Lower(user_message) IN
    IF Contains(message_lower, "location")
    THEN <<"Which locations need the most improvement?",
           "What are the best practices from top-performing locations?",
           "How do location performance trends compare over time?">>
    ELSE IF Contains(message_lower, "agent")
    THEN <<"Which agents need coaching support?",
           "What training topics would help improve performance?",
           "How do agent performance metrics correlate with customer satisfaction?">>
    ELSE IF Contains(message_lower, "quality")
    THEN <<"What factors most impact call quality scores?",
           "How has call quality changed over time?",
           "Which script elements improve call quality?">>
    ELSE IF Contains(message_lower, "sentiment")
    THEN <<"What are the main drivers of negative sentiment?",
           "How does sentiment vary by location or agent?",
           "What actions can improve customer sentiment?">>
    ELSE <<"What are the biggest opportunities for improvement?",
           "Show me key performance trends",
           "What insights would help me make better decisions?">>

\* _get_fallback_suggestions
get_fallback_suggestions ==
    <<"Which locations have the highest call volume?",
      "What are the most common customer complaints?",
      "How is our overall customer satisfaction?",
      "Which agents are performing best?">>

error_response ==
    "I apologize, but I encountered an error processing your request. Please try asking your question in a different way."

\* chat, given the outcome completion of the request to the language model
\* (lines 147-168): [ok, content], ok FALSE when it raises.  The user message
\* is appended before the request is made and the except branch takes
\* nothing back.
chat(conversation_history, user_message, completion) ==
    LET with_user == Append(conversation_history,
                            [role |-> "user", content |-> user_message])
    IN  IF completion.ok
        THEN LET with_reply == Append(with_user, [role |-> "assistant",
                                                  content |-> completion.content])
             IN  [conversation_history |-> with_reply,
                  result |-> [response |-> completion.content,
                              suggestions |-> generate_suggestions(user_message),
                              conversation_id |-> Len(with_reply)]]
        ELSE [conversation_history |-> with_user,
              result |-> [response |-> error_response,
                          suggestions |-> get_fallback_suggestions,
                          conversation_id |-> Len(with_user)]]

\* reset_conversation
reset_conversation(conversation_history) == << >>

UserMessages == {"Which agents need coaching?", "Show me location quality"}

\* what the request to the language model comes to
Completions == {[ok |-> FALSE], [ok |-> TRUE, content |-> "Here is what the data shows"]}

\* fn_in counts the calls made on the object; fn_out holds its
\* conversation_history and the last call with the history before it
InitChat ==
    /\ IdlePipeline
    /\ fn_pc = "chatting"
    /\ fn_in = 0
    /\ fn_out = [conversation_history |-> << >>,
                 last |-> [op |-> "init", before |-> << >>, result |-> Null]]

ChatCall(user_message, completion) ==
    /\ fn_pc = "chatting"
    /\ fn_in < MaxChats
    /\ LET call == chat(fn_out.conversation_history, user_message, completion)
       IN  fn_out' = [conversation_history |-> call.conversation_history,
                      last |-> [op |-> "chat",
                                before |-> fn_out.conversation_history,
                                result |-> call.result]]
    /\ fn_in' = fn_in + 1
    /\ UNCHANGED fn_pc
    /\ UNCHANGED pipeline_vars

ResetCall ==
    /\ fn_pc = "chatting"
    /\ fn_in < MaxChats
    /\ fn_out' = [conversation_history |-> reset_conversation(fn_out.conversation_history),
                  last |-> [op |-> "reset",
                            before |-> fn_out.conversation_history,
                            result |-> Null]]
    /\ fn_in' = fn_in + 1
    /\ UNCHANGED fn_pc
    /\ UNCHANGED pipeline_vars

NextChat ==
    \/ \E user_message \in UserMessages, completion \in Completions :
          ChatCall(user_message, completion)
    \/ ResetCall

SpecChat == InitChat /\ [][NextChat]_vars

(***************************************************************************)
(* crm_integration.SpaSystemIntegrator: integrations and webhook events    *)
(***************************************************************************)
MaxIntegratorCalls == 3

\* register_integration: self.integrations with the entry of system_name
\* set to the integration_config built from config
register_integration(integrations, system_name, config) ==
    LET integration_config ==
           [type |-> config.type,
            api_endpoint |-> Get(config, "api_endpoint", Null),
            api_key |-> Get(config, "api_key", Null),
            webhook_secret |-> Get(config, "webhook_secret", Null),
            sync_frequency |-> Get(config, "sync_frequency", Str("hourly")),
            enabled |-> Get(config, "enabled", Bool(TRUE)),
            last_sync |-> Null]
    IN  [n \in DOMAIN integrations \cup {system_name} |->
            IF n = system_name THEN integration_config ELSE integrations[n]]

\* json.dumps of a payload: an object with at most the one field id
payload_json(payload) ==
    IF "id" \in DOMAIN payload.v
    THEN "{\"id\": \"" \o payload.v.id.v \o "\"}"
    ELSE "{}"

\* hmac.new(key, message, sha256).hexdigest(): a digest that tells every
\* key and every message apart
hmac_hexdigest(key, message) == "hmac-sha256(" \o key \o ", " \o message \o ")"

\* `not webhook_secret`
NoSecret(webhook_secret) == webhook_secret = Null \/ webhook_secret = Str("")

\* _verify_webhook_signature.  A system that is not registered has the
\* config {} and so no secret; without a secret the event is let through.
\* compare_digest raises TypeError on a signature that is no string, which
\* the except branch turns into False.
verify_webhook_signature(integrations, system_name, event_data) ==
    LET webhook_secret ==
           IF system_name \in DOMAIN integrations
           THEN integrations[system_name].webhook_secret ELSE Null
    IN  IF NoSecret(webhook_secret) THEN TRUE
        ELSE LET received_signature == Get(event_data, "signature", Str(""))
                 payload == Get(event_data, "payload", Obj(EmptyRec))
                 expected_signature ==
                    hmac_hexdigest(webhook_secret.v, payload_json(payload))
             IN  IF ~IsStr(received_signature) THEN FALSE
                 ELSE received_signature.v = expected_signature

\* process_webhook_event: what it returns and the handler it runs
process_webhook_event(integrations, system_name, event_data) ==
    IF ~verify_webhook_signature(integrations, system_name, event_data)
    THEN [returns |-> FALSE, handler |-> "none"]
    ELSE LET event_type == Get(event_data, "event_type", Null) IN
         [returns |-> TRUE,
          handler |->
             IF event_type \in {Str("customer.created"), Str("customer.updated")}
             THEN "_handle_customer_event"
             ELSE IF event_type \in {Str("appointment.created"),
                                     Str("appointment.cancelled")}
             THEN "_handle_appointment_event"
             ELSE "none"]

SystemNames == {"mindbody", "zenoti"}

SecretChoices == {Absent, Null, Str(""), Str("k1"), Str("k2")}

IntegrationConfig(secret) ==
    IF secret = Absent
    THEN [type |-> "crm", api_endpoint |-> Str("https://api.example.com")]
    ELSE [type |-> "crm", api_endpoint |-> Str("https://api.example.com"),
          webhook_secret |-> secret]

EventPayload == Obj([id |-> Str("cust-1")])

SignatureChoices ==
    {Absent, Num(5), Str(""),
     Str(hmac_hexdigest("k1", payload_json(EventPayload))),
     Str(hmac_hexdigest("k2", payload_json(EventPayload)))}

EventTypeChoices == {"customer.created", "appointment.cancelled", "invoice.paid"}

WebhookEvent(event_type, signature) ==
    IF signature = Absent
    THEN [event_type |-> Str(event_type), payload |-> EventPayload]
    ELSE [event_type |-> Str(event_type), payload |-> EventPayload,
          signature |-> signature]

\* fn_in holds self.integrations and the number of calls made; fn_out the
\* last call
InitWebhook ==
    /\ IdlePipeline
    /\ fn_pc = "integrator"
    /\ fn_in = [integrations |-> [n \in {} |-> Null], calls |-> 0]
    /\ fn_out = [op |-> "init"]

RegisterIntegration(system_name, secret) ==
    /\ fn_pc = "integrator"
    /\ fn_in.calls < MaxIntegratorCalls
    /\ fn_in' = [integrations |->
                    register_integration(fn_in.integrations, system_name,
                                         IntegrationConfig(secret)),
                 calls |-> fn_in.calls + 1]
    /\ fn_out' = [op |-> "register", system_name |-> system_name]
    /\ UNCHANGED fn_pc
    /\ UNCHANGED pipeline_vars

ProcessWebhookEvent(system_name, event_data) ==
    /\ fn_pc = "integrator"
    /\ fn_in.calls < MaxIntegratorCalls
    /\ fn_in' = [fn_in EXCEPT !.calls = @ + 1]
    /\ fn_out' = [op |-> "webhook", system_name |-> system_name,
                  event_data |-> event_data,
                  result |-> process_webhook_event(fn_in.integrations,
                                                   system_name, event_data)]
    /\ UNCHANGED fn_pc
    /\ UNCHANGED pipeline_vars

NextWebhook ==
    \/ \E system_name \in SystemNames, secret \in SecretChoices :
          RegisterIntegration(system_name, secret)
    \/ \E system_name \in SystemNames, event_type \in EventTypeChoices,
          signature \in SignatureChoices :
          ProcessWebhookEvent(system_name, WebhookEvent(event_type, signature))

SpecWebhook == InitWebhook /\ [][NextWebhook]_vars

(***************************************************************************)
(* What the claims speak of                                                *)
(***************************************************************************)
\* the conversations of a batch whose decoding does not fail
GoodConversations(batch) == SelectSeq(batch, LAMBDA c : c \notin BadConversations)

\* the identifier of a raw conversation: id, else uuid, else ''
ConversationId(c) == Get(c.v, "id", Get(c.v, "uuid", Str("")))

IdsOf(batch) == [i \in 1..Len(batch) |-> ConversationId(batch[i])]

RowIds(rows) == [i \in 1..Len(rows) |-> rows[i].val["conversation_id"]]

\* the conversations the JSON document of input file i holds
FileConversations(i) ==
    IF fs[i].data.t = "list" THEN fs[i].data.v ELSE <<fs[i].data>>

Loadable(i) == fs[i].kind = "json"

RECURSIVE VisitFrom(_)
VisitFrom(k) ==
    IF k > Len(file_patterns) THEN << >>
    ELSE pattern_files(file_patterns[k]) \o VisitFrom(k + 1)

\* the input files in the order process_vcon_files comes to them
VisitList == VisitFrom(1)

RECURSIVE IdsOfFiles(_, _)
IdsOfFiles(fileseq, k) ==
    IF k > Len(fileseq) THEN << >>
    ELSE (IF Loadable(fileseq[k])
          THEN IdsOf(GoodConversations(FileConversations(fileseq[k])))
          ELSE << >>)
         \o IdsOfFiles(fileseq, k + 1)

\* one identifier per decodable conversation of every loadable file visited
ExpectedIds == IdsOfFiles(VisitList, 1)

RunEnded == pc \in {"done", "crashed"}

\* export_to_csv had data and its write failed
WriteFailed == report = "export_failed" /\ processed_data # << >>

\* C1: a failure while decoding one conversation never aborts
\* parse_conversations: after it parsed_data holds, in order, exactly the
\* conversations of the batch that decode; the rows extract_business_data
\* emits are those of the same conversations, and no output row ever carries
\* a failing conversation.
C1_FailingConversationSkipped ==
    /\ pc # "parse" =>
          [i \in 1..Len(parsed_data) |-> parsed_data[i].raw_vcon]
             = GoodConversations(conversations)
    /\ pc \notin {"parse", "extract"} =>
          RowIds(business_data) = IdsOf(GoodConversations(conversations))
    /\ \A i \in 1..Len(processed_data) :
          processed_data[i].val["conversation_id"]
             \notin {ConversationId(c) : c \in {b \in BadConversations : IsObj(b)}}

C1_Witness ==
    /\ pc = "enrich"
    /\ \E i \in 1..Len(conversations) : conversations[i] \in BadConversations
    /\ Len(parsed_data) >= 2
    /\ Len(business_data) = Len(parsed_data)
    /\ Len(parsed_data) < Len(conversations)

\* C2: when loading an input file fails the run goes on with the remaining
\* files and enriches their records: at its end the output rows are exactly
\* those of the decodable conversations of the loadable files, and the run
\* reports success unless no file produced output (a failed write of the
\* export set aside).
C2_LoadFailureContinues ==
    (RunEnded /\ \E i \in 1..NumFiles : ~Loadable(i)) =>
        /\ pc = "done"
        /\ RowIds(processed_data) = ExpectedIds
        /\ (ExpectedIds # << >> /\ ~WriteFailed) => report = "success"

\* C3: the run reports success exactly when at least one input file was
\* processed into at least one record (a failed write of the export set
\* aside).
C3_SuccessIffRecords ==
    (RunEnded /\ ~WriteFailed) =>
        (report = "success" <=> (Len(processed_files) > 0 /\ Len(processed_data) > 0))

\* C4: parsing plus enrichment raises nothing and yields, for every
\* conversation that decodes, one row in which each of the 25 priority
\* columns is present with a value.
C4_EveryConversationYieldsCompleteRow ==
    /\ pc # "crashed"
    /\ pc = "file" => Len(processed_data) >= Len(business_data)
    /\ \A i \in 1..Len(processed_data) :
          \A c \in Range(column_order) :
             /\ c \in Range(processed_data[i].keys)
             /\ processed_data[i].val[c] # Null

\* the position of a column in a sequence of columns
Pos(columns, c) == CHOOSE i \in 1..Len(columns) : columns[i] = c

\* C5: the columns of an exported dataset are the priority list in its fixed
\* order, followed by every remaining column of the records exactly once, in
\* the order the records hold them; no column is dropped or duplicated.
C5_ColumnOrder ==
    csv # OldDataset =>
        LET cols == csv.columns
            record_keys == processed_data[1].keys
        IN  /\ \A i \in 1..Len(processed_data) : processed_data[i].keys = record_keys
            /\ Len(cols) >= Len(column_order)
            /\ SubSeq(cols, 1, Len(column_order)) = column_order
            /\ \A i, j \in 1..Len(cols) : i # j => cols[i] # cols[j]
            /\ Range(cols) = Range(record_keys)
            /\ \A i, j \in (Len(column_order) + 1)..Len(cols) :
                  i < j => Pos(record_keys, cols[i]) < Pos(record_keys, cols[j])
            /\ \A i \in 1..Len(csv.rows) :
                  /\ Len(csv.rows[i]) = Len(cols)
                  /\ \A k \in 1..Len(cols) : csv.rows[i][k] = processed_data[i].val[cols[k]]

C5_Witness ==
    /\ pc = "done"
    /\ report = "success"
    /\ Len(csv.columns) > Len(column_order)
    /\ Len(csv.rows) >= 2

\* the temporal tuple of the fallback
IsDefaultTemporal(d) ==
    /\ d["call_date"] = Str("2025-01-01")
    /\ d["call_hour"] = Num(12)
    /\ d["call_day_of_week"] = Str("Monday")
    /\ d["call_quarter"] = Str("Q1")
    /\ d["is_weekend"] = Bool(FALSE)
    /\ d["is_business_hours"] = Bool(TRUE)

\* the row has the values of the sub-feature dict
Carries(row, feature) == \A k \in Range(feature.keys) : row.val[k] = feature.val[k]

\* C6: a conversation whose created_at is missing or unparseable gets a
\* record with exactly the default temporal tuple, and the fallback keeps no
\* other sub-feature of that record from being computed: the record carries
\* the sentiment, topic, quality, script adherence, customer experience,
\* outcome and urgency of its transcript.
C6_DefaultTupleOnRecord ==
    (fn_pc = "applied" /\ fn_in.created_at \in BadCreatedAt) =>
        /\ fn_out.temporal.ok
        /\ IsDefaultTemporal(fn_out.temporal.val.val)
        /\ fn_out.enriched.ok
        /\ IsDefaultTemporal(fn_out.enriched.val.val)
        /\ Carries(fn_out.enriched.val, fn_out.sentiment)
        /\ Carries(fn_out.enriched.val, fn_out.topics.val)
        /\ Carries(fn_out.enriched.val, fn_out.quality)
        /\ Carries(fn_out.enriched.val, fn_out.script)
        /\ Carries(fn_out.enriched.val, fn_out.cx)
        /\ fn_out.enriched.val.val["call_outcome"] = Str(fn_out.outcome)
        /\ fn_out.enriched.val.val["urgency_level"] = Str(fn_out.urgency)

\* C6, the part of it that holds: the temporal sub-feature itself raises
\* nothing and is the default tuple, and the record is lost exactly when
\* topic classification raises, whatever created_at is; a record there is
\* carries the default tuple and every other sub-feature.
C6_FallbackRaisesNothing ==
    (fn_pc = "applied" /\ fn_in.created_at \in BadCreatedAt) =>
        /\ fn_out.temporal.ok
        /\ IsDefaultTemporal(fn_out.temporal.val.val)
        /\ fn_out.enriched.ok = fn_out.topics.ok
        /\ fn_out.enriched.ok =>
              /\ IsDefaultTemporal(fn_out.enriched.val.val)
              /\ Carries(fn_out.enriched.val, fn_out.sentiment)
              /\ Carries(fn_out.enriched.val, fn_out.topics.val)
              /\ Carries(fn_out.enriched.val, fn_out.quality)
              /\ Carries(fn_out.enriched.val, fn_out.script)
              /\ Carries(fn_out.enriched.val, fn_out.cx)
              /\ fn_out.enriched.val.val["call_outcome"] = Str(fn_out.outcome)
              /\ fn_out.enriched.val.val["urgency_level"] = Str(fn_out.urgency)

\* an unparseable created_at on a record that is there
C6_Witness ==
    /\ fn_pc = "applied"
    /\ fn_in.created_at = Str("2025-02-30T10:00:00Z")
    /\ fn_out.enriched.ok
    /\ fn_out.enriched.val.val["call_date"] = Str("2025-01-01")
    /\ fn_out.enriched.val.val["call_outcome"] = Str("resolved")
    /\ fn_out.enriched.val.val["script_adherence_rate"] # Flt(0)

\* the transcript of scenario 2
HasRudeEscalateManager(text) ==
    /\ Contains(Lower(text), "rude")
    /\ Contains(Lower(text), "escalate")
    /\ Contains(Lower(text), "manager")

\* C7, as claimed: a transcript with "rude", "escalate" and "manager" has
\* call_outcome "complaint".
C7_OutcomeIsComplaint ==
    (fn_pc = "applied" /\ HasRudeEscalateManager(fn_out.text)) =>
        fn_out.outcome = "complaint"

\* C7, amended: such a transcript has call_outcome "resolved" when it holds
\* one of the resolved keywords and "requires_followup" otherwise, because
\* "escalate" matches the follow-up check, which comes before the complaint
\* check; it is never "complaint".
C7_OutcomeIsFollowup ==
    (fn_pc = "applied" /\ HasRudeEscalateManager(fn_out.text)) =>
        fn_out.outcome =
            (IF \E i \in 1..Len(resolved_words) :
                   Contains(Lower(fn_out.text), resolved_words[i])
             THEN "resolved" ELSE "requires_followup")

C7_Witness ==
    /\ fn_pc = "applied"
    /\ HasRudeEscalateManager(fn_out.text)
    /\ fn_out.outcome = "requires_followup"

\* the number of phrases of the list that occur in the lower-cased transcript
PhrasesPresent(phrases, text) ==
    Cardinality({i \in 1..Len(phrases) : Contains(Lower(text), phrases[i])})

QualityScore == fn_out.quality.val["call_quality_score"].v

FollowedCount(text) ==
    Cardinality({i \in 1..Len(script_elements) :
                    \E j \in 1..Len(script_elements[i]) :
                        Contains(Lower(text), script_elements[i][j])})

AdherenceRate == fn_out.script.val["script_adherence_rate"].v

\* C9, as claimed: script_adherence_rate is in [0,1] and equals
\* followed_count / 6 exactly.
C9_RateIsExactSixth ==
    fn_pc = "applied" =>
        /\ 0 <= AdherenceRate /\ AdherenceRate <= 1000
        /\ 6 * AdherenceRate = 1000 * FollowedCount(fn_out.text)

\* C9, amended: script_adherence_rate is in [0,1] and is followed_count / 6
\* rounded to 3 decimals (the thousandth nearest to it).
C9_RateIsRoundedSixth ==
    fn_pc = "applied" =>
        /\ 0 <= AdherenceRate /\ AdherenceRate <= 1000
        /\ 6 * AdherenceRate - 1000 * FollowedCount(fn_out.text) \in -3..3
        /\ fn_out.script.val["script_elements_followed"] = Num(FollowedCount(fn_out.text))

C9_Witness ==
    /\ fn_pc = "applied"
    /\ FollowedCount(fn_out.text) = 4
    /\ AdherenceRate = 667

\* the part of an address after its last "@" ("" without one)
EmailDomain(email) ==
    IF ~Contains(email, "@") THEN ""
    ELSE LET at == CHOOSE i \in 1..Len(email) :
                      /\ SubSeq(email, i, i) = "@"
                      /\ \A j \in (i + 1)..Len(email) : SubSeq(email, j, j) # "@"
         IN  SubSeq(email, at + 1, Len(email))

TextOf(choice) == IF choice = Absent THEN "" ELSE choice.v

\* C10: the role is "agent" exactly when the name contains support, agent,
\* rep or service (case-insensitive) or the domain of the email contains the
\* brand token or "spa", and "customer" for every other party.
C10_AgentIffNameOrEmailDomain ==
    fn_pc = "resolved" =>
        /\ fn_out.ok
        /\ fn_out.val[1].role \in {Str("agent"), Str("customer")}
        /\ fn_out.val[1].role = Str("agent") <=>
              \/ \E w \in {"support", "agent", "rep", "service"} :
                    Contains(Lower(TextOf(fn_in.name)), w)
              \/ Contains(EmailDomain(Lower(TextOf(fn_in.email))), "feelgoodspas")
              \/ Contains(EmailDomain(Lower(TextOf(fn_in.email))), "spa")

\* the parties of the looked-up conversation, with their resolved roles
LookedUpParties == fn_out.parsed.parties

HasRole(party, role) == party.role = Str(role)

NoInfo(info) == DOMAIN info = {}

\* C11, as claimed: with fewer than 2 parties the customer-info lookup
\* returns empty info and customer_name and customer_phone are "Unknown"
\* and "".
C11_FewPartiesCustomerEmpty ==
    (fn_pc = "looked_up" /\ Len(fn_in.parties) < 2) =>
        /\ NoInfo(fn_out.customer)
        /\ fn_out.details.val["customer_name"] = Str("Unknown")
        /\ fn_out.details.val["customer_phone"] = Str("")

\* C11, amended: with fewer than 2 parties the customer-info lookup returns
\* the lone party when its role is "customer", and the row then has that
\* party's name and tel; it returns empty info, and the row has "Unknown"
\* and "", only when there is no party or the lone party is an agent.
C11_FewPartiesCustomerIsLoneCustomer ==
    (fn_pc = "looked_up" /\ Len(fn_in.parties) < 2) =>
        IF Len(LookedUpParties) = 1 /\ HasRole(LookedUpParties[1], "customer")
        THEN /\ fn_out.customer = LookedUpParties[1]
             /\ fn_out.details.val["customer_name"] =
                   Get(fn_in.parties[1].v, "name", Str("Unknown"))
             /\ fn_out.details.val["customer_phone"] =
                   Get(fn_in.parties[1].v, "tel", Str(""))
        ELSE /\ NoInfo(fn_out.customer)
             /\ fn_out.details.val["customer_name"] = Str("Unknown")
             /\ fn_out.details.val["customer_phone"] = Str("")

C11_Witness ==
    /\ fn_pc = "looked_up"
    /\ fn_in.parties = <<CustomerParty>>
    /\ fn_out.details.val["customer_name"] = Str("Jane Doe")
    /\ fn_out.details.val["customer_phone"] = Str("555-0100")

\* both runs of the pipeline ended and reported success
BothRunsSucceeded ==
    /\ pc = "done"
    /\ fn_pc \in {"same_processor", "new_processor"}
    /\ report = "success"
    /\ fn_in.report = "success"

\* C12: running process_vcon_files then export_to_csv twice on identical
\* input gives value-identical datasets: the second dataset has the rows of
\* the first, none added, lost or repeated.
C12_SecondRunSameDataset ==
    BothRunsSucceeded => csv = fn_in.csv

\* C12, the part of it that holds: a second run on a new SpaDataProcessor
\* (main started again) writes the dataset the first run wrote.
C12_NewProcessorSameDataset ==
    (BothRunsSucceeded /\ fn_pc = "new_processor") => csv = fn_in.csv

C12_Witness ==
    /\ BothRunsSucceeded
    /\ fn_pc = "new_processor"
    /\ Len(csv.rows) >= 2
    /\ csv = fn_in.csv

\* C13: a run's export replaces the dataset at the output path wholesale:
\* after it the file holds exactly the rows of the run, one per record and
\* in their order, under the columns of the run, and nothing of the file
\* that was there before; the file changes in no other step of the run.
C13_ExportReplacesDataset ==
    /\ (pc = "done" /\ report = "success") =>
          /\ csv.state = "complete"
          /\ Len(csv.rows) = Len(processed_data)
          /\ \A i \in 1..Len(csv.rows) :
                csv.rows[i] = csv_row(processed_data[i], csv.columns)
          /\ [i \in 1..Len(csv.rows) |-> csv.rows[i][1]] = ExpectedIds
          /\ \A i \in 1..Len(csv.rows) : csv.rows[i] \notin Range(OldDataset.rows)
          /\ csv.columns # OldDataset.columns
    /\ pc # "done" => csv = OldDataset

C13_Witness ==
    /\ pc = "done"
    /\ report = "success"
    /\ Len(csv.rows) >= 3
    /\ csv.rows[1][1] # Str("c-old")

\* C14: when export_to_csv cannot complete the write the caller is told so,
\* and the output path holds at every point either the complete previous
\* dataset or the complete new one, never a partially written file.
C14_NoPartialFile ==
    /\ csv.state = "complete"
    /\ csv = OldDataset \/ csv = new_dataset(Len(processed_data))
    /\ (pc = "done" /\ csv # new_dataset(Len(processed_data))) => report # "success"

\* the keyword hits of each topic bucket in the transcript, in bucket order
BucketHits(text) ==
    [i \in 1..Len(topic_keywords) |-> PhrasesPresent(topic_keywords[i], text)]

\* bucket b has the highest count and is the earliest bucket that has it
IsFirstMaximum(hits, b) ==
    /\ \A j \in 1..Len(hits) : hits[j] <= hits[b]
    /\ \A j \in 1..(b - 1) : hits[j] < hits[b]

\* the topic result names bucket b, with its share of the hits (to the 3
\* decimals the result keeps) as confidence, which lies in (0,1]
TopicIsBucket(topics, hits, b) ==
    /\ topics["primary_topic"] = Str(topic_names[b])
    /\ topics["topic_confidence"] = Flt(RoundHalfEven(1000 * hits[b], SeqSum(hits, 1)))
    /\ 0 < topics["topic_confidence"].v
    /\ topics["topic_confidence"].v <= 1000

\* C15: topic classification returns, for every transcript, the first
\* bucket with the highest keyword-hit count as primary_topic with its share
\* of all hits as topic_confidence, in (0,1]; a transcript without any hit
\* yields primary_topic "general" with topic_confidence 0.
C15_TopicClassification ==
    fn_pc = "applied" =>
        LET hits == BucketHits(fn_out.text) IN
        /\ fn_out.topics.ok
        /\ IF SeqSum(hits, 1) = 0
           THEN /\ fn_out.topics.val.val["primary_topic"] = Str("general")
                /\ fn_out.topics.val.val["topic_confidence"] = Flt(0)
           ELSE \E b \in 1..Len(hits) :
                   /\ IsFirstMaximum(hits, b)
                   /\ TopicIsBucket(fn_out.topics.val.val, hits, b)

\* C15, the part of it that holds: the classification raises exactly when
\* the transcript has no hit, and with a hit it is as claimed.
C15_TopicOfTranscriptWithHits ==
    fn_pc = "applied" =>
        LET hits == BucketHits(fn_out.text) IN
        /\ fn_out.topics.ok = (SeqSum(hits, 1) > 0)
        /\ fn_out.topics.ok =>
              \E b \in 1..Len(hits) :
                 /\ IsFirstMaximum(hits, b)
                 /\ TopicIsBucket(fn_out.topics.val.val, hits, b)

\* a tie between buckets, and a share that is no whole number of thousandths
C15_Witness ==
    /\ fn_pc = "applied"
    /\ fn_out.topics.ok
    /\ fn_out.topics.val.val["primary_topic"] = Str("appointment_scheduling")
    /\ fn_out.topics.val.val["topic_confidence"] = Flt(333)

\* some word of the list occurs in the lower-cased transcript
AnyPresent(words, text) == PhrasesPresent(words, text) > 0

\* C16: call_outcome is the label of the first check that matches in the
\* order resolved, requires_followup, cancelled, complaint, and "completed"
\* when none matches; a later check never overrides an earlier match.
C16_OutcomeFirstMatchWins ==
    fn_pc = "assessed" =>
        /\ AnyPresent(resolved_words, fn_out.text) => fn_out.outcome = "resolved"
        /\ (/\ ~AnyPresent(resolved_words, fn_out.text)
            /\ AnyPresent(followup_words, fn_out.text))
              => fn_out.outcome = "requires_followup"
        /\ (/\ ~AnyPresent(resolved_words, fn_out.text)
            /\ ~AnyPresent(followup_words, fn_out.text)
            /\ AnyPresent(cancelled_words, fn_out.text))
              => fn_out.outcome = "cancelled"
        /\ (/\ ~AnyPresent(resolved_words, fn_out.text)
            /\ ~AnyPresent(followup_words, fn_out.text)
            /\ ~AnyPresent(cancelled_words, fn_out.text)
            /\ AnyPresent(complaint_words, fn_out.text))
              => fn_out.outcome = "complaint"
        /\ (/\ ~AnyPresent(resolved_words, fn_out.text)
            /\ ~AnyPresent(followup_words, fn_out.text)
            /\ ~AnyPresent(cancelled_words, fn_out.text)
            /\ ~AnyPresent(complaint_words, fn_out.text))
              => fn_out.outcome = "completed"

\* an earlier match (follow-up) with two later ones (cancel, complaint)
C16_Witness ==
    /\ fn_pc = "assessed"
    /\ AnyPresent(followup_words, fn_out.text)
    /\ AnyPresent(cancelled_words, fn_out.text)
    /\ ~AnyPresent(resolved_words, fn_out.text)
    /\ fn_out.outcome = "requires_followup"

\* the duration term of the quality score, in thousandths
DurationTerm(duration) ==
    IF 120 <= duration /\ duration <= 600 THEN 500
    ELSE IF duration > 900 THEN -300
    ELSE 0

\* C17: call_quality_score = clamp(7.0 + 0.3 x positive indicators present
\* - 0.5 x negative indicators present + d, 1, 10) to 1 decimal, with
\* d = +0.5 for 120 <= duration <= 600, d = -0.3 for duration > 900 and
\* d = 0 for every other duration.
C17_QualityFormula ==
    fn_pc = "assessed" =>
        /\ QualityScore =
              Round1(Clamp(1000, 10000,
                           7000 + 300 * PhrasesPresent(positive_indicators, fn_out.text)
                                - 500 * PhrasesPresent(negative_indicators, fn_out.text)
                                + DurationTerm(fn_out.duration)))
        /\ 1000 <= QualityScore /\ QualityScore <= 10000
        /\ QualityScore % 100 = 0

\* the duration 900 itself carries no penalty
C17_Witness ==
    /\ fn_pc = "assessed"
    /\ fn_out.duration = 900
    /\ PhrasesPresent(negative_indicators, fn_out.text) = 2
    /\ PhrasesPresent(positive_indicators, fn_out.text) = 0
    /\ QualityScore = 6000

\* the score is clamped at 10
C17_WitnessClamped ==
    /\ fn_pc = "assessed"
    /\ fn_out.duration = 600
    /\ PhrasesPresent(positive_indicators, fn_out.text) = 10
    /\ PhrasesPresent(negative_indicators, fn_out.text) = 0
    /\ QualityScore = 10000

\* info is the first party of the list with the role, or, when no party has
\* the role, the party at the fallback position (counted from 1), or empty
\* when the list has no such position
IsLookupResult(info, parties, role, fallback) ==
    IF \E i \in 1..Len(parties) : HasRole(parties[i], role)
    THEN \E i \in 1..Len(parties) :
            /\ HasRole(parties[i], role)
            /\ \A j \in 1..(i - 1) : ~HasRole(parties[j], role)
            /\ info = parties[i]
    ELSE IF Len(parties) >= fallback THEN info = parties[fallback]
    ELSE NoInfo(info)

\* C18: the agent-info lookup returns the first party in list order whose
\* role is "agent" and falls back to party index 0 when no party is an
\* agent; the customer-info lookup returns the first party whose role is
\* "customer" and falls back to party index 1 when no party is a customer
\* (a fallback position the list does not have gives empty info).
C18_LookupFirstWithRoleElseIndex ==
    fn_pc = "looked_up" =>
        /\ IsLookupResult(fn_out.agent, LookedUpParties, "agent", 1)
        /\ IsLookupResult(fn_out.customer, LookedUpParties, "customer", 2)
        /\ fn_out.details.val["agent_name"] = Get(fn_out.agent, "name", Str("Unknown"))
        /\ fn_out.details.val["customer_name"] = Get(fn_out.customer, "name", Str("Unknown"))

\* no party is a customer: the customer is the party at index 1
C18_Witness ==
    /\ fn_pc = "looked_up"
    /\ fn_in.parties = <<AgentParty, SecondAgentParty>>
    /\ fn_out.agent = LookedUpParties[1]
    /\ fn_out.customer = LookedUpParties[2]
    /\ fn_out.details.val["customer_name"] = Str("Sales Rep")

\* no party is an agent: the agent is the party at index 0; and an agent
\* that is not the first party
C18_WitnessAgent ==
    /\ fn_pc = "looked_up"
    /\ \/ /\ fn_in.parties = <<CustomerParty, SecondCustomerParty>>
          /\ fn_out.details.val["agent_name"] = Str("Jane Doe")
       \/ /\ fn_in.parties = <<CustomerParty, SecondAgentParty, AgentParty>>
          /\ fn_out.details.val["agent_name"] = Str("Sales Rep")

\* the fields of raw dialog turn i, with the defaults of the parser
TurnBody(i) == Get(fn_in.dialog[i].v, "body", Str("")).v
TurnType(i) == Get(fn_in.dialog[i].v, "type", Str("text")).v
TurnParty(i) == Get(fn_in.dialog[i].v, "party", Num(0)).v

\* the keywords of the bucket that occur in the body of some turn
BucketCount(keywords) ==
    Cardinality({k \in 1..Len(keywords) :
                    \E i \in 1..Len(fn_in.dialog) :
                        Contains(Lower(TurnBody(i)), keywords[k])})

TypeCounts ==
    <<BucketCount(booking_keywords), BucketCount(complaint_keywords),
      BucketCount(billing_keywords), BucketCount(service_keywords)>>

TypeNames == <<"booking", "complaint", "billing", "service_inquiry">>

\* C19: conversation_type is the keyword bucket with the highest count over
\* the bodies of all dialog turns, the first of booking, complaint, billing,
\* service_inquiry that reaches the maximum, and "general" exactly when all
\* four counts are zero.
C19_ConversationTypeFirstMaximum ==
    fn_pc = "parsed" =>
        LET type == fn_out.details.val["conversation_type"] IN
        /\ (type = Str("general")) <=> (\A b \in 1..4 : TypeCounts[b] = 0)
        /\ type # Str("general") =>
              \E b \in 1..4 :
                 /\ type = Str(TypeNames[b])
                 /\ IsFirstMaximum(TypeCounts, b)
        /\ fn_out.parsed.metrics.conversation_type = type.v

\* complaint and billing tie, and complaint comes first
C19_Witness ==
    /\ fn_pc = "parsed"
    /\ TypeCounts = <<0, 1, 1, 0>>
    /\ fn_out.details.val["conversation_type"] = Str("complaint")

\* a turn that is no text turn counts for the type
C19_WitnessRecording ==
    /\ fn_pc = "parsed"
    /\ Len(fn_in.dialog) = 1
    /\ TurnType(1) = "recording"
    /\ fn_out.details.val["conversation_type"] = Str("billing")

\* turn i is a text turn with a nonempty body
IsSpoken(i) == TurnType(i) = "text" /\ TurnBody(i) # ""

SpokenLine(i) ==
    (IF TurnParty(i) = 0 THEN "Agent: " ELSE "Customer: ") \o TurnBody(i)

\* the lines of the spoken turns from turn i on, one per line
RECURSIVE LinesFrom(_)
LinesFrom(i) ==
    IF i > Len(fn_in.dialog) THEN ""
    ELSE IF ~IsSpoken(i) THEN LinesFrom(i + 1)
    ELSE IF \E j \in (i + 1)..Len(fn_in.dialog) : IsSpoken(j)
         THEN SpokenLine(i) \o "\n" \o LinesFrom(i + 1)
         ELSE SpokenLine(i)

\* C20: the transcript is exactly the dialog turns of type "text" with a
\* nonempty body, one line per turn in dialog order, prefixed "Agent: " for
\* party index 0 and "Customer: " otherwise; other turns contribute nothing
\* and a dialog without such a turn gives the empty transcript.
C20_TranscriptAssembly ==
    fn_pc = "parsed" =>
        /\ fn_out.details.val["conversation_text"] = Str(LinesFrom(1))
        /\ (\A i \in 1..Len(fn_in.dialog) : ~IsSpoken(i)) =>
              fn_out.details.val["conversation_text"] = Str("")

\* an agent line, then a customer line of party 2, a recording left out
C20_Witness ==
    /\ fn_pc = "parsed"
    /\ Len(fn_in.dialog) = 2
    /\ TurnBody(1) = "so unhappy"
    /\ TurnParty(2) = 2
    /\ fn_out.details.val["conversation_text"] =
          Str("Agent: so unhappy\nCustomer: Hello there")

\* turns that are left out
C20_WitnessLeftOut ==
    /\ fn_pc = "parsed"
    /\ Len(fn_in.dialog) = 2
    /\ TurnType(1) = "recording"
    /\ TurnBody(2) = ""
    /\ fn_out.details.val["conversation_text"] = Str("")

\* the duration of raw dialog turn i where it is a number, else nothing
TurnDuration(i) ==
    LET d == Get(fn_in.dialog[i].v, "duration", Num(0)) IN
    IF d.t = "num" THEN d.v ELSE 0

RECURSIVE DurationsFrom(_)
DurationsFrom(i) ==
    IF i > Len(fn_in.dialog) THEN 0 ELSE TurnDuration(i) + DurationsFrom(i + 1)

\* C21: message_count is the number of dialog turns; agent_messages counts
\* the turns with party index 0 and customer_messages all other turns, so
\* the two add up to message_count; total_duration is the sum of the turn
\* durations (a duration that is no number adds nothing); has_recording
\* holds exactly when some turn has type "recording"; has_analysis exactly
\* when the analysis list is nonempty.
C21_StructuralMetrics ==
    fn_pc = "parsed" =>
        LET m == fn_out.parsed.metrics
            turns == 1..Len(fn_in.dialog)
        IN  /\ m.message_count = Len(fn_in.dialog)
            /\ m.agent_messages = Cardinality({i \in turns : TurnParty(i) = 0})
            /\ m.customer_messages = Cardinality({i \in turns : TurnParty(i) # 0})
            /\ m.agent_messages + m.customer_messages = m.message_count
            /\ m.total_duration = DurationsFrom(1)
            /\ m.has_recording <=> \E i \in turns : TurnType(i) = "recording"
            /\ m.has_analysis <=> fn_in.analysis # << >>

\* a recording of party 0 and a turn of party 2, with an analysis
C21_Witness ==
    /\ fn_pc = "parsed"
    /\ Len(fn_in.dialog) = 2
    /\ TurnType(1) = "recording"
    /\ TurnParty(2) = 2
    /\ fn_in.analysis # << >>
    /\ fn_out.parsed.metrics.total_duration = 315
    /\ fn_out.parsed.metrics.customer_messages = 1
    /\ fn_out.parsed.metrics.has_recording
    /\ fn_out.parsed.metrics.has_analysis

\* a duration that is no number is left out of the sum
C21_WitnessNoNumber ==
    /\ fn_pc = "parsed"
    /\ Len(fn_in.dialog) = 2
    /\ Get(fn_in.dialog[1].v, "duration", Num(0)) = Str("45")
    /\ TurnDuration(2) = 60
    /\ fn_out.parsed.metrics.total_duration = 60
    /\ ~fn_out.parsed.metrics.has_analysis

DistinctPresent(indicators) ==
    Cardinality({p \in Range(indicators) : Contains(Lower(fn_in.text), p)})

\* C23: each of the four customer-experience counts is the number of marker
\* phrases of its list that occur in the transcript, a distinct phrase
\* counted at most once; net_satisfaction_score is the satisfaction count
\* less the dissatisfaction count, net_effort_score the low-effort count
\* less the high-effort count; all six values are emitted.
C23_ExperienceCounts ==
    fn_pc = "assessed" =>
        LET cx == fn_out.cx.val IN
        /\ fn_out.cx.keys =
              <<"customer_satisfaction_indicators",
                "customer_dissatisfaction_indicators", "low_effort_indicators",
                "high_effort_indicators", "net_satisfaction_score",
                "net_effort_score">>
        /\ cx["customer_satisfaction_indicators"] =
              Num(DistinctPresent(satisfaction_indicators))
        /\ cx["customer_dissatisfaction_indicators"] =
              Num(DistinctPresent(dissatisfaction_indicators))
        /\ cx["low_effort_indicators"] = Num(DistinctPresent(effort_indicators))
        /\ cx["high_effort_indicators"] = Num(DistinctPresent(difficulty_indicators))
        /\ cx["net_satisfaction_score"] =
              Num(DistinctPresent(satisfaction_indicators)
                  - DistinctPresent(dissatisfaction_indicators))
        /\ cx["net_effort_score"] =
              Num(DistinctPresent(effort_indicators)
                  - DistinctPresent(difficulty_indicators))

\* what holds of C23: the three counts of the lists without a repeated
\* phrase, and both nets as differences of the emitted counts
C23_CountsOfListsWithoutRepeat ==
    fn_pc = "assessed" =>
        LET cx == fn_out.cx.val IN
        /\ cx["customer_satisfaction_indicators"] =
              Num(DistinctPresent(satisfaction_indicators))
        /\ cx["customer_dissatisfaction_indicators"] =
              Num(DistinctPresent(dissatisfaction_indicators))
        /\ cx["low_effort_indicators"] = Num(DistinctPresent(effort_indicators))
        /\ ~Contains(Lower(fn_in.text), "complicated") =>
              cx["high_effort_indicators"] =
                  Num(DistinctPresent(difficulty_indicators))
        /\ cx["net_satisfaction_score"].v =
              cx["customer_satisfaction_indicators"].v
              - cx["customer_dissatisfaction_indicators"].v
        /\ cx["net_effort_score"].v =
              cx["low_effort_indicators"].v - cx["high_effort_indicators"].v

\* "complicated" and "confusing" occur and the count is 3
C23_WitnessRepeatedPhrase ==
    /\ fn_pc = "assessed"
    /\ fn_in.text = "It was complicated and confusing"
    /\ fn_out.cx.val["high_effort_indicators"] = Num(3)
    /\ fn_out.cx.val["net_effort_score"] = Num(-3)

\* the distance of two numbers
Distance(a, b) == IF a >= b THEN a - b ELSE b - a

\* C24: from a polarity the label is "positive" above 0.1, "negative" below
\* -0.1 and "neutral" otherwise, both thresholds exclusive; the satisfaction
\* score is clamp(5 + 5 * polarity, 1, 10) rounded to 1 decimal and lies in
\* [1, 10]; an empty transcript or an exception of the polarity model gives
\* polarity 0, "neutral" and 5.0.
C24_SentimentMapping ==
    fn_pc = "analyzed" =>
        LET r == fn_out.val
            score == r["customer_satisfaction_score"].v
        IN  IF fn_in.text = "" \/ ~fn_in.blob.ok
            THEN /\ r["sentiment_polarity"] = Flt(0)
                 /\ r["sentiment_label"] = Str("neutral")
                 /\ r["customer_satisfaction_score"] = Flt(5000)
            ELSE LET q == fn_in.blob.polarity IN
                 /\ (r["sentiment_label"] = Str("positive")) <=> (q > 100)
                 /\ (r["sentiment_label"] = Str("negative")) <=> (q < -100)
                 /\ (r["sentiment_label"] = Str("neutral")) <=> (q >= -100 /\ q <= 100)
                 /\ score % 100 = 0
                 /\ Distance(score, Clamp(1000, 10000, 5000 + 5 * q)) <= 50
                 /\ score >= 1000 /\ score <= 10000

\* a polarity of exactly 0.1 is neutral, with satisfaction 5.5
C24_Witness ==
    /\ fn_pc = "analyzed"
    /\ fn_in.text # ""
    /\ fn_in.blob.ok
    /\ fn_in.blob.polarity = 100
    /\ fn_out.val["sentiment_label"] = Str("neutral")
    /\ fn_out.val["customer_satisfaction_score"] = Flt(5500)

\* the lower clamp acts: polarity -0.95 gives satisfaction 1.0
C24_WitnessClamped ==
    /\ fn_pc = "analyzed"
    /\ fn_in.text # ""
    /\ fn_in.blob.ok
    /\ fn_in.blob.polarity = -950
    /\ fn_out.val["sentiment_label"] = Str("negative")
    /\ fn_out.val["customer_satisfaction_score"] = Flt(1000)

\* the polarity model raises on a nonempty transcript
C24_WitnessException ==
    /\ fn_pc = "analyzed"
    /\ fn_in.text # ""
    /\ ~fn_in.blob.ok
    /\ fn_out.val["sentiment_label"] = Str("neutral")

IsPrefix(p, q) == Len(p) <= Len(q) /\ p = SubSeq(q, 1, Len(p))

\* C25: the rows stand in the order the input files are processed and,
\* within a file, in the order of its conversations; a conversation or a
\* file that fails is left out and the order of the other rows stays.
C25_RowOrderStable ==
    /\ IsPrefix(RowIds(processed_data), ExpectedIds)
    /\ pc = "enrich" =>
          RowIds(business_data) = IdsOf(GoodConversations(conversations))

\* two files with a failing conversation each, a file that fails to load
\* between them
C25_Witness ==
    /\ pc = "done"
    /\ fs[2] = InvalidJsonFile
    /\ \A i \in 1..Len(file_patterns) : file_patterns[i].kind = "path"
    /\ RowIds(processed_data) =
          <<Str("c-notime"), Str("c-badtime"), Str("c-notime"), Str("c-badtime")>>

NoRepeat(q) == \A i, j \in 1..Len(q) : q[i] = q[j] => i = j

\* the existing input files, each once
DistinctFiles == SelectSeq([i \in 1..NumFiles |-> i], Exists)

\* C26: within one call of process_vcon_files every input file is loaded
\* and enriched at most once, also when an exact path and a glob pattern
\* both match it; the output has exactly one row per decoded conversation
\* of each distinct input file.
C26_EveryFileAtMostOnce ==
    /\ NoRepeat(processed_files)
    /\ pc = "done" => RowIds(processed_data) = IdsOfFiles(DistinctFiles, 1)

\* what holds of C26: with exact paths alone no file is taken twice
C26_PathsAloneEveryFileOnce ==
    (\A i \in 1..Len(file_patterns) : file_patterns[i].kind = "path") =>
        /\ NoRepeat(processed_files)
        /\ pc = "done" => RowIds(processed_data) = IdsOfFiles(DistinctFiles, 1)

\* the glob pattern matches the files the exact paths named: every file is
\* processed twice and every row is there twice
C26_WitnessTwice ==
    /\ pc = "done"
    /\ file_patterns[Len(file_patterns)].kind = "glob"
    /\ processed_files = <<1, 3, 3, 1>>
    /\ RowIds(processed_data) =
          <<Str("c-notime"), Str("c-badtime"), Str("c-notime"), Str("c-badtime"),
            Str("c-notime"), Str("c-badtime"), Str("c-notime"), Str("c-badtime")>>

\* the agent and the customer looked up are parties at two positions
FromTwoParties ==
    \E i, j \in 1..Len(LookedUpParties) :
        /\ i # j
        /\ fn_out.agent = LookedUpParties[i]
        /\ fn_out.customer = LookedUpParties[j]

\* C27: for a conversation with at least two parties the party selected as
\* agent and the party selected as customer are two different parties, so
\* the agent fields and the customer fields of a row never come from the
\* same party.
C27_AgentAndCustomerDiffer ==
    (fn_pc = "looked_up" /\ Len(fn_in.parties) >= 2) => FromTwoParties

\* what holds of C27: the two differ whenever some party is an agent
C27_DifferWhenSomeAgent ==
    (/\ fn_pc = "looked_up"
     /\ Len(fn_in.parties) >= 2
     /\ \E i \in 1..Len(LookedUpParties) : HasRole(LookedUpParties[i], "agent"))
    => FromTwoParties

\* two customers and no agent: the first customer is the agent as well
C27_WitnessSameParty ==
    /\ fn_pc = "looked_up"
    /\ fn_in.parties = <<SecondCustomerParty, CustomerParty>>
    /\ fn_out.agent = LookedUpParties[1]
    /\ fn_out.customer = LookedUpParties[1]
    /\ fn_out.details.val["agent_name"] = Str("Bob")
    /\ fn_out.details.val["customer_name"] = Str("Bob")

EmptyTranscript == fn_out.details.val["conversation_text"] = Str("")

\* C28: conversation_type and the enrichment features come from the same
\* text: a conversation whose transcript is empty (no text turn with a
\* nonempty body) has conversation_type "general", just as its
\* primary_topic is "general".
C28_EmptyTranscriptIsGeneral ==
    (fn_pc = "parsed" /\ EmptyTranscript) =>
        /\ fn_out.details.val["conversation_type"] = Str("general")
        /\ fn_out.topics.ok
        /\ fn_out.topics.val.val["primary_topic"] = Str("general")

\* the half of C28 about conversation_type alone
C28_EmptyTranscriptTypeGeneral ==
    (fn_pc = "parsed" /\ EmptyTranscript) =>
        fn_out.details.val["conversation_type"] = Str("general")

\* what holds of C28: conversation_type is "general" when no turn of any
\* type has a body, and topic classification of an empty transcript raises
C28_NoBodyIsGeneral ==
    fn_pc = "parsed" =>
        /\ (\A i \in 1..Len(fn_in.dialog) : TurnBody(i) = "") =>
              fn_out.details.val["conversation_type"] = Str("general")
        /\ EmptyTranscript => ~fn_out.topics.ok

\* a lone recording with a body: no transcript, and the type is billing
C28_WitnessRecordingBody ==
    /\ fn_pc = "parsed"
    /\ Len(fn_in.dialog) = 1
    /\ TurnType(1) = "recording"
    /\ TurnBody(1) = "massage invoice"
    /\ EmptyTranscript
    /\ fn_out.details.val["conversation_type"] = Str("billing")
    /\ ~fn_out.topics.ok

History == fn_out.conversation_history

\* user, assistant, user, assistant, ...: every user message with its reply
Alternates(history) ==
    /\ Len(history) % 2 = 0
    /\ \A i \in 1..Len(history) :
          history[i].role = IF i % 2 = 1 THEN "user" ELSE "assistant"

LastChatFailed ==
    fn_out.last.op = "chat" /\ fn_out.last.result.response = error_response

\* C29: after any sequence of chat and reset_conversation calls the
\* conversation_history alternates user and assistant messages starting
\* with a user message; a chat call that fails returns the error response
\* and leaves the history as it was before the call; reset_conversation
\* empties it.
C29_HistoryAlternates ==
    fn_pc = "chatting" =>
        /\ Alternates(History)
        /\ LastChatFailed => History = fn_out.last.before
        /\ fn_out.last.op = "reset" => History = << >>

\* what holds of C29: a chat that succeeds appends the user message and its
\* reply, a chat that fails appends the user message alone and returns the
\* error response, and reset_conversation empties the history
C29_ChatAppendsResetEmpties ==
    fn_pc = "chatting" =>
        /\ fn_out.last.op = "reset" => History = << >>
        /\ (fn_out.last.op = "chat" /\ ~LastChatFailed) =>
              /\ Len(History) = Len(fn_out.last.before) + 2
              /\ SubSeq(History, 1, Len(fn_out.last.before)) = fn_out.last.before
              /\ History[Len(History) - 1].role = "user"
              /\ History[Len(History)].role = "assistant"
              /\ History[Len(History)].content = fn_out.last.result.response
        /\ LastChatFailed =>
              /\ Len(History) = Len(fn_out.last.before) + 1
              /\ SubSeq(History, 1, Len(fn_out.last.before)) = fn_out.last.before
              /\ History[Len(History)].role = "user"
              /\ fn_out.last.result.suggestions = get_fallback_suggestions

\* a chat fails and the next one succeeds: two user messages in a row
C29_WitnessTwoUsers ==
    /\ fn_pc = "chatting"
    /\ fn_in = 2
    /\ Len(History) = 3
    /\ History[1].role = "user"
    /\ History[2].role = "user"
    /\ History[3].role = "assistant"
    /\ fn_out.last.result.conversation_id = 3

\* the system of the last event is a registered integration with a secret
HasSecret ==
    /\ fn_out.system_name \in DOMAIN fn_in.integrations
    /\ fn_in.integrations[fn_out.system_name].webhook_secret \notin {Null, Str("")}

\* the signature of the last event is the digest of its payload under the
\* secret of its system
SignatureVerifies ==
    /\ HasSecret
    /\ "signature" \in DOMAIN fn_out.event_data
    /\ fn_out.event_data.signature =
          Str(hmac_hexdigest(fn_in.integrations[fn_out.system_name].webhook_secret.v,
                             payload_json(fn_out.event_data.payload)))

\* C30: process_webhook_event accepts an event (returns True or runs a
\* handler) only when its system is a registered integration and its
\* signature verifies against that integration's webhook secret; an event
\* for an unregistered system, for a system without a secret, or with a
\* wrong signature returns False and no handler runs.
C30_OnlyVerifiedEventsAccepted ==
    (fn_pc = "integrator" /\ fn_out.op = "webhook") =>
        /\ (fn_out.result.returns \/ fn_out.result.handler # "none")
              => SignatureVerifies
        /\ ~SignatureVerifies =>
              (~fn_out.result.returns /\ fn_out.result.handler = "none")

\* what holds of C30: for a system registered with a secret the event is
\* accepted exactly when its signature verifies, and a rejected event runs
\* no handler
C30_WithSecretOnlyVerifiedAccepted ==
    (fn_pc = "integrator" /\ fn_out.op = "webhook") =>
        /\ HasSecret => (fn_out.result.returns <=> SignatureVerifies)
        /\ ~fn_out.result.returns => fn_out.result.handler = "none"

\* an unsigned event for a system nobody registered runs the customer
\* handler
C30_WitnessUnregistered ==
    /\ fn_pc = "integrator"
    /\ fn_out.op = "webhook"
    /\ fn_in.integrations = [n \in {} |-> Null]
    /\ "signature" \notin DOMAIN fn_out.event_data
    /\ fn_out.result.returns
    /\ fn_out.result.handler = "_handle_customer_event"

\* a registered system with a secret: the right signature is accepted
C30_WitnessVerified ==
    /\ fn_pc = "integrator"
    /\ fn_out.op = "webhook"
    /\ SignatureVerifies
    /\ fn_out.result.returns
    /\ fn_out.result.handler = "_handle_appointment_event"

====
